---- MODULE Spec2Model ----
(***************************************************************************)
(* Outline generation-and-repair pipeline of PrePT:                        *)
(*   ContentGenerator.generate_presentation_outline  (attempt loop),       *)
(*   ContentGenerator._call_api                      (candidate chain),    *)
(*   ContentGenerator._fallback_outline              (synthetic outline),  *)
(*   ContentMapper.assess_slide                      (normalise/assess),   *)
(*   PresentationOrchestrator.generate               (regeneration loop).  *)
(*                                                                         *)
(* A text is the record [id, len, pad]: id names the text up to            *)
(* strip().lower() (what the code compares), len is len(text) and pad the  *)
(* number of surrounding whitespace characters that strip() removes.       *)
(***************************************************************************)
EXTENDS Integers, Sequences, FiniteSets, TLC

\* ------------------------------------------------------------------------
\* Bounds of the model
\* ------------------------------------------------------------------------
MaxRetriesEnv == 3
MaxRespSlides == 4
MaxSeed == 1
MaxRegen == 3
MaxMapBullets == 7
MaxTextLen == 16
MaxSpaces == 2
MaxJsonLen == 5

\* ------------------------------------------------------------------------
\* Program constants
\* ------------------------------------------------------------------------
TITLE_MAX == 80
SUBTITLE_MAX == 100
BULLET_MAX == 120
CONTENT_MIN_BULLETS == 3
CONTENT_MAX_BULLETS == 10
CLOSING_MIN_BULLETS == 3
CLOSING_MAX_BULLETS == 7
OUTLINE_TITLE_MAX == 100
MIN_BULLET_LENGTH == 1
MIN_SLIDES == 3
MAX_SLIDES == 20
DEFAULT_SLIDES_EMPTY == 5
BEST_INIT == 1000000000
GOOD_ENOUGH == 1
DUP_LIMIT == 3
TOPIC_IN_TITLE == 45

Min(a, b) == IF a < b THEN a ELSE b
Max(a, b) == IF a > b THEN a ELSE b

\* ------------------------------------------------------------------------
\* Texts
\* ------------------------------------------------------------------------
T(kind, i, j, n) == [id |-> <<kind, i, j>>, len |-> n, pad |-> 0]
NoneT == [id |-> <<"None", 0, 0>>, len |-> 0, pad |-> 0]
EmptyT == [id |-> <<"", 0, 0>>, len |-> 0, pad |-> 0]
\* a whitespace-only text of n characters
BlankT(n) == [id |-> <<"", 0, 0>>, len |-> n, pad |-> n]

\* Python truthiness of an Optional[str]: None and "" are falsy
Truthy(t) == t.len > 0
\* str.strip()
Strip(t) == [t EXCEPT !.len = t.len - t.pad, !.pad = 0]
\* text[:n] of a stripped text
Slice(t, n) == [t EXCEPT !.len = Min(t.len, n)]
\* a or b
OrElse(a, b) == IF Truthy(a) THEN a ELSE b

\* ContentGenerator._truncate: text longer than max_len becomes
\* text[:max_len-3].rstrip() + "...", at most max_len characters
GenTruncate(t, max_len) ==
    LET s == Strip(t)
    IN IF s.len <= max_len THEN s ELSE [s EXCEPT !.len = max_len]

\* ContentGenerator._is_bad_bullet: the bullet contains a filler marker
IsBadBullet(b) == b.id[1] = "lorem ipsum"

\* ------------------------------------------------------------------------
\* models.py: SlideType, SlideOutline, PresentationOutline
\* ------------------------------------------------------------------------
SlideType == {"title_slide", "content_slide", "two_column", "closing_slide"}

\* pydantic validation of SlideOutline(...): does construction succeed
SlideOutlineValid(slide_number, title, subtitle, bullet_points) ==
    /\ slide_number >= 1
    /\ title.len <= TITLE_MAX
    /\ Strip(title).len > 0
    /\ (subtitle = NoneT \/ subtitle.len <= SUBTITLE_MAX)
    /\ \A k \in 1..Len(bullet_points) :
          /\ bullet_points[k].len <= BULLET_MAX
          /\ bullet_points[k].len >= MIN_BULLET_LENGTH

\* the constructed SlideOutline (validate_title strips the title)
SlideOutline(slide_number, slide_type, title, subtitle, bullet_points) ==
    [slide_number |-> slide_number, slide_type |-> slide_type,
     title |-> Strip(title), subtitle |-> subtitle,
     bullet_points |-> bullet_points]

\* pydantic validation of PresentationOutline(...)
PresentationOutlineValid(title) ==
    title = NoneT \/ title.len <= OUTLINE_TITLE_MAX

\* PresentationOutline(...) with model_post_init
PresentationOutline(title, a_topic, slides) ==
    [title |-> IF Truthy(title) THEN title ELSE a_topic,
     topic |-> a_topic, slides |-> slides, total_slides |-> Len(slides)]

\* the value held by a variable that holds no outline
NoOutline == [title |-> NoneT, topic |-> NoneT, slides |-> <<>>,
              total_slides |-> -1]

\* ------------------------------------------------------------------------
\* The model's JSON: data is the record [obj, slides_is_list, slides, title,
\* topic]; a slide entry is [obj, slide_type, title, subtitle, bullet_points]
\* (obj = FALSE: the entry is not a JSON object)
\* ------------------------------------------------------------------------
SlideTitleDefault(idx) == T("Slide", idx, 0, IF idx < 10 THEN 7 ELSE 8)

\* the override applied before the coercion: an invalid type stays
\* content_slide on the first and the last entry
CoerceSlideTypeLast(raw_type, idx, n) ==
    IF raw_type \notin SlideType THEN "content_slide"
    ELSE IF idx = 1 THEN "title_slide"
    ELSE IF idx = n THEN "closing_slide"
    ELSE raw_type

\* _parse_outline_response, lines 451-461: coerce the type, then override
\* the first and the last entry of slides_data
CoerceSlideType(raw_type, idx, n) ==
    IF idx = 1 THEN "title_slide"
    ELSE IF idx = n THEN "closing_slide"
    ELSE IF raw_type \in SlideType THEN raw_type
    ELSE "content_slide"

EntryTitle(sd, idx) == OrElse(sd.title, SlideTitleDefault(idx))

\* line 451: sd.get("slide_type", "content_slide")
RawSlideType(sd) ==
    IF sd.slide_type = "missing" THEN "content_slide" ELSE sd.slide_type

RECURSIVE ParseSlides(_, _)
ParseSlides(slides_data, idx) ==
    IF idx > Len(slides_data) THEN <<>>
    ELSE LET sd == slides_data[idx]
         IN IF ~sd.obj THEN ParseSlides(slides_data, idx + 1)
            ELSE <<SlideOutline(idx,
                                CoerceSlideType(RawSlideType(sd), idx, Len(slides_data)),
                                EntryTitle(sd, idx), sd.subtitle,
                                sd.bullet_points)>>
                 \o ParseSlides(slides_data, idx + 1)

\* topic_title_fallback(data)
TopicTitleFallback(data) ==
    Slice(Strip(OrElse(data.topic, OrElse(data.title, T("Presentation", 0, 0, 12)))), 80)

OutlineTitleOf(data) == OrElse(data.title, OrElse(data.topic, TopicTitleFallback(data)))

\* does _parse_outline_response raise on data
ParseRaises(data) ==
    \/ ~data.obj
    \/ ~data.slides_is_list
    \/ data.slides = <<>>
    \/ \E idx \in 1..Len(data.slides) :
          /\ data.slides[idx].obj
          /\ ~SlideOutlineValid(idx, EntryTitle(data.slides[idx], idx),
                                data.slides[idx].subtitle,
                                data.slides[idx].bullet_points)
    \/ ~PresentationOutlineValid(OutlineTitleOf(data))

\* _parse_outline_response(data), when it does not raise
ParseOutlineResponse(data) ==
    PresentationOutline(OutlineTitleOf(data),
                        OrElse(data.topic, T("General Topic", 0, 0, 13)),
                        ParseSlides(data.slides, 1))

\* ------------------------------------------------------------------------
\* _normalize_outline
\* ------------------------------------------------------------------------
EnforceFirstLast(slides) ==
    [i \in 1..Len(slides) |->
        IF i = 1 THEN [slides[i] EXCEPT !.slide_type = "title_slide"]
        ELSE IF i = Len(slides) THEN [slides[i] EXCEPT !.slide_type = "closing_slide"]
        ELSE slides[i]]

KeepBullet(b) == Strip(b).len > 0 /\ ~IsBadBullet(b)

\* no cap on the number of bullets, and the bullets of a title slide kept
CapBulletsKeepsAll(slide_type, bullets) == bullets

\* lines 511-516
CapBullets(slide_type, bullets) ==
    IF slide_type = "closing_slide"
      THEN SubSeq(bullets, 1, Min(Len(bullets), CLOSING_MAX_BULLETS))
    ELSE IF slide_type \in {"content_slide", "two_column"}
      THEN SubSeq(bullets, 1, Min(Len(bullets), CONTENT_MAX_BULLETS))
    ELSE <<>>

NormalizeSlide(s) ==
    LET kept == SelectSeq(s.bullet_points, KeepBullet)
        capped == CapBullets(s.slide_type, kept)
    IN [s EXCEPT
          !.title = Slice(Strip(s.title), TITLE_MAX),
          !.subtitle = IF Truthy(s.subtitle)
                         THEN Slice(Strip(s.subtitle), SUBTITLE_MAX)
                         ELSE s.subtitle,
          !.bullet_points =
              [k \in 1..Len(capped) |-> GenTruncate(capped[k], BULLET_MAX)]]

\* a helper that leaves total_slides as it was
KeepTotalSlides(outline, slides) == outline

\* line 522: outline.total_slides = len(slides)
SetTotalSlides(outline, slides) == [outline EXCEPT !.total_slides = Len(slides)]

NormalizeOutline(outline, expected_slides) ==
    LET cut == IF Len(outline.slides) > expected_slides
                 THEN SubSeq(outline.slides, 1, expected_slides)
                 ELSE outline.slides
        typed == EnforceFirstLast(cut)
        slides == [i \in 1..Len(typed) |-> NormalizeSlide(typed[i])]
    IN SetTotalSlides([outline EXCEPT !.slides = slides], slides)

\* ------------------------------------------------------------------------
\* _validate_outline: the list of issues, each named by its kind
\* ------------------------------------------------------------------------
ValidBullets(s) == SelectSeq(s.bullet_points, LAMBDA b : Strip(b).len > 0)

SlideIssues(s) ==
    LET n == Len(ValidBullets(s))
        few(lo) == IF n < lo THEN <<"too_few_bullets">> ELSE <<>>
        many(hi) == IF n > hi THEN <<"too_many_bullets">> ELSE <<>>
        long == SelectSeq([k \in 1..n |-> IF ValidBullets(s)[k].len > BULLET_MAX
                                            THEN "bullet_too_long" ELSE "ok"],
                          LAMBDA c : c = "bullet_too_long")
    IN (IF s.slide_type \in {"content_slide", "two_column"}
          THEN few(CONTENT_MIN_BULLETS) \o many(CONTENT_MAX_BULLETS)
        ELSE IF s.slide_type = "closing_slide"
          THEN few(CLOSING_MIN_BULLETS) \o many(CLOSING_MAX_BULLETS)
        ELSE IF n > 0 THEN <<"title_slide_bullets">> ELSE <<>>)
       \o long

RECURSIVE AllSlideIssues(_, _)
AllSlideIssues(slides, i) ==
    IF i > Len(slides) THEN <<>>
    ELSE SlideIssues(slides[i]) \o AllSlideIssues(slides, i + 1)

RECURSIVE AllBullets(_, _)
AllBullets(slides, i) ==
    IF i > Len(slides) THEN <<>>
    ELSE slides[i].bullet_points \o AllBullets(slides, i + 1)

DupCount(slides) ==
    LET all == AllBullets(slides, 1)
    IN Len(all) - Cardinality({all[k].id : k \in 1..Len(all)})

ValidateOutline(outline, expected_slides) ==
    LET slides == outline.slides
        titled == {i \in 1..Len(slides) : Truthy(slides[i].title)}
    IN (IF Len(slides) # expected_slides THEN <<"slide_count">> ELSE <<>>)
       \o (IF Cardinality({slides[i].title.id : i \in titled}) # Cardinality(titled)
             THEN <<"titles_not_unique">> ELSE <<>>)
       \o AllSlideIssues(slides, 1)
       \o (IF DupCount(slides) >= DUP_LIMIT THEN <<"repeated_bullets">> ELSE <<>>)

\* ------------------------------------------------------------------------
\* _fallback_outline.  random.Random(seed) is a deterministic stream of
\* draws: Rand(seed, k) is draw number k of the stream seeded with seed.
\* ------------------------------------------------------------------------
Seeds == 0..MaxSeed
Rand(seed, k) == seed * 5 + k * 3 + seed * k + (k \div 3)

\* seed = abs(hash((topic, audience, tone, num_slides))) % 2**32.  hash of
\* a str is keyed by the interpreter process (PYTHONHASHSEED is random
\* unless the environment fixes it): salt is the key of the process
DetSeed(a_topic, aud, n_slides, salt) ==
    (a_topic.len + aud.len + Max(n_slides, -n_slides) + salt) % (MaxSeed + 1)

\* len(angle) of the eight angles, in the order of the list
AngleLen == <<16, 13, 18, 18, 15, 19, 16, 14>>
\* angles[(i - 2) % len(angles)] after rng.shuffle(angles)
AngleAt(seed, i) == ((Rand(seed, 0) + (i - 2)) % Len(AngleLen)) + 1

\* the five bullet templates of bullets_for(angle): their lengths
TemplateLen(t, angle, a_topic) ==
    CASE t = 1 -> 48 + AngleLen[angle] + a_topic.len
      [] t = 2 -> 75 + a_topic.len
      [] t = 3 -> 72 + a_topic.len
      [] t = 4 -> 77
      [] t = 5 -> 71
TemplateText(t, angle, a_topic) ==
    T("template", t, IF t = 1 THEN angle ELSE 0, TemplateLen(t, angle, a_topic))

\* rng.shuffle(templates); templates[: rng.randint(3, 10)]
BulletsFor(seed, i, angle, a_topic) ==
    LET rot == Rand(seed, 2 * i) % 5
        cnt == Min(5, CONTENT_MIN_BULLETS
                        + (Rand(seed, 2 * i + 1)
                           % (CONTENT_MAX_BULLETS - CONTENT_MIN_BULLETS + 1)))
    IN [k \in 1..cnt |-> TemplateText(((rot + k - 1) % 5) + 1, angle, a_topic)]

FallbackTitleSlide(a_topic, aud) ==
    [slide_number |-> 1, slide_type |-> "title_slide",
     title |-> Slice(a_topic, TITLE_MAX),
     subtitle |-> IF Truthy(aud) THEN T("For", 0, 0, 4 + aud.len)
                  ELSE T("Overview", 0, 0, 8),
     bullet_points |-> <<>>]

FallbackMiddleSlide(seed, i, a_topic) ==
    LET angle == AngleAt(seed, i)
    IN [slide_number |-> i, slide_type |-> "content_slide",
        title |-> T("angle", angle, 0,
                    AngleLen[angle] + 2 + Min(a_topic.len, TOPIC_IN_TITLE)),
        subtitle |-> NoneT,
        bullet_points |-> BulletsFor(seed, i, angle, a_topic)]

ClosingTitleLen == <<22, 13, 15, 16, 11>>
ClosingSubLen == <<22, 30, 27, 28, 27>>
ClosingBulletLen(k, a_topic) ==
    CASE k = 1 -> 54 + a_topic.len [] k = 2 -> 77 [] k = 3 -> 66 [] k = 4 -> 69

FallbackClosingSlide(seed, n_slides, a_topic) ==
    LET ct == (Rand(seed, 101) % 5) + 1
        cs == (Rand(seed, 102) % 5) + 1
        cnt == Min(4, CLOSING_MIN_BULLETS
                        + (Rand(seed, 103)
                           % (CLOSING_MAX_BULLETS - CLOSING_MIN_BULLETS + 1)))
    IN [slide_number |-> n_slides, slide_type |-> "closing_slide",
        title |-> T("closing", ct, 0, ClosingTitleLen[ct]),
        subtitle |-> T("closing_sub", cs, 0, ClosingSubLen[cs]),
        bullet_points |-> [k \in 1..cnt |-> T("closing_bullet", k, 0,
                                              ClosingBulletLen(k, a_topic))]]

FallbackSlides(a_topic, n_slides, aud, seed) ==
    LET middle_count == Max(n_slides - 2, 1)
    IN <<FallbackTitleSlide(a_topic, aud)>>
       \o [j \in 1..middle_count |-> FallbackMiddleSlide(seed, j + 1, a_topic)]
       \o <<FallbackClosingSlide(seed, n_slides, a_topic)>>

\* a SlideOutline(...) or the PresentationOutline(...) of _fallback_outline
\* is rejected by pydantic
FallbackRaises(a_topic, n_slides, aud, seed) ==
    LET slides == FallbackSlides(a_topic, n_slides, aud, seed)
    IN \/ \E i \in 1..Len(slides) :
             ~SlideOutlineValid(slides[i].slide_number, slides[i].title,
                                slides[i].subtitle, slides[i].bullet_points)
       \/ ~PresentationOutlineValid(a_topic)

FallbackOutline(a_topic, n_slides, aud, seed) ==
    PresentationOutline(a_topic, a_topic,
                        FallbackSlides(a_topic, n_slides, aud, seed))

\* ------------------------------------------------------------------------
\* Model names and the candidate chain
\* ------------------------------------------------------------------------
GROQ_70B == "groq/llama-3.3-70b-versatile"
GROQ_8B == "groq/llama-3.1-8b-instant"

\* _normalize_model_name
NormalizeModelName(m, groq) ==
    IF m = "" THEN (IF groq THEN GROQ_70B ELSE "ollama/llama3")
    ELSE IF m \in {"llama3-70b-8192", "groq/llama3-70b-8192"} THEN GROQ_70B
    ELSE IF m \in {"llama3-8b-8192", "groq/llama3-8b-8192"} THEN GROQ_8B
    ELSE m

\* self.model.split("/", 1)[0] if "/" in self.model else "unknown"
ProviderOf(m) ==
    IF m \in {GROQ_70B, GROQ_8B} THEN "groq"
    ELSE IF m = "ollama/llama3" THEN "ollama"
    ELSE IF m \in {"gemini/gemini-2.0-flash-lite", "gemini/gemini-pro"} THEN "gemini"
    ELSE IF m \in {"openai/gpt-4o-mini", "openai/gpt-4.1-mini"} THEN "openai"
    ELSE "unknown"

\* self.model.endswith("llama-3.1-8b-instant")
EndsWith8B(m) == m = GROQ_8B

\* _candidate_models
CandidateModels(groq, gemini, openai) ==
    (IF groq THEN <<GROQ_70B, GROQ_8B>> ELSE <<>>)
    \o (IF gemini THEN <<"gemini/gemini-2.0-flash-lite", "gemini/gemini-pro">> ELSE <<>>)
    \o (IF openai THEN <<"openai/gpt-4o-mini", "openai/gpt-4.1-mini">> ELSE <<>>)

\* a chain that always starts from the configured candidates
CandidateChainFixed(m, groq, gemini, openai) ==
    IF CandidateModels(groq, gemini, openai) = <<>>
      THEN <<m>>
      ELSE CandidateModels(groq, gemini, openai)

\* a chain that does not drop the current model from the candidates
CandidateChainUnfiltered(m, groq, gemini, openai) ==
    <<m>> \o CandidateModels(groq, gemini, openai)

\* _call_api, lines 261-263: the current model, then the other candidates
CandidateChain(m, groq, gemini, openai) ==
    <<m>> \o SelectSeq(CandidateModels(groq, gemini, openai), LAMBDA c : c # m)

\* how one completion(...) call can fail (the substrings _call_api looks for)
Failures == {"rejected", "rate_limited", "refused", "other"}

\* a loop that only goes on past an unreachable local endpoint
SkipsToNextOllamaOnly(cand, failure) ==
    failure = "refused" /\ ProviderOf(cand) = "ollama"

\* a loop that rotates candidates on a rate limit too
SkipsToNextOrRateLimited(cand, failure) ==
    \/ failure \in {"rejected", "rate_limited"}
    \/ failure = "refused" /\ ProviderOf(cand) = "ollama"

\* _call_api, lines 293-304: does the loop go on to the next candidate
SkipsToNext(cand, failure) ==
    \/ failure = "rejected"
    \/ failure = "refused" /\ ProviderOf(cand) = "ollama"

\* ------------------------------------------------------------------------
\* Responses of the model explored.  A deck of n entries is made of
\* well-formed entries, with at most one entry of another kind.
\* ------------------------------------------------------------------------
GoodEntry(i) ==
    [obj |-> TRUE, slide_type |-> "content_slide",
     title |-> T("title", i, 0, 20), subtitle |-> NoneT,
     bullet_points |-> [k \in 1..3 |-> T("bullet", i, k, 30)]]

EntryKinds == {"weak", "bogus", "echo", "long", "nonobj", "title_mid"}

EntryOfKind(i, kind) ==
    CASE kind = "weak" ->
           [GoodEntry(i) EXCEPT !.bullet_points = SubSeq(@, 1, 2)]
      [] kind = "bogus" ->
           [GoodEntry(i) EXCEPT !.slide_type = "banana", !.title = NoneT]
      [] kind = "echo" ->
           [GoodEntry(i) EXCEPT !.title = GoodEntry(2).title,
                                !.bullet_points = GoodEntry(2).bullet_points]
      [] kind = "long" ->
           [GoodEntry(i) EXCEPT !.title = T("title", i, 0, TITLE_MAX + 1)]
      [] kind = "nonobj" ->
           [GoodEntry(i) EXCEPT !.obj = FALSE]
      [] kind = "title_mid" ->
           [GoodEntry(i) EXCEPT !.slide_type = "title_slide"]

Deck(n, pos, kind) ==
    [i \in 1..n |-> IF i = pos THEN EntryOfKind(i, kind) ELSE GoodEntry(i)]

JsonObject(slides) ==
    [obj |-> TRUE, slides_is_list |-> TRUE, slides |-> slides,
     title |-> NoneT, topic |-> NoneT]

Decks ==
    {Deck(n, 0, "weak") : n \in 0..MaxRespSlides}
    \cup {Deck(MIN_SLIDES, pos, kind) : pos \in 2..MIN_SLIDES, kind \in EntryKinds}
    \cup {Deck(n, 1, "nonobj") : n \in {1, MIN_SLIDES}}
    \cup {Deck(2, 2, "weak")}

\* the text returned by completion(...): kind says how it parses
Responses ==
    {[kind |-> "json", data |-> JsonObject(d)] : d \in Decks}
    \cup {[kind |-> "json",
           data |-> [JsonObject(Deck(3, 0, "weak")) EXCEPT
                       !.title = T("deck title", 0, 0, OUTLINE_TITLE_MAX + 1)]],
          [kind |-> "json",
           data |-> [JsonObject(Deck(3, 0, "weak")) EXCEPT
                       !.topic = T("model a_topic", 0, 0, 15)]],
          [kind |-> "json",
           data |-> [JsonObject(<<>>) EXCEPT !.slides_is_list = FALSE]],
          [kind |-> "json", data |-> [JsonObject(<<>>) EXCEPT !.obj = FALSE]],
          [kind |-> "prose", data |-> JsonObject(Deck(3, 0, "weak"))],
          [kind |-> "garbage", data |-> JsonObject(<<>>)],
          [kind |-> "None", data |-> JsonObject(<<>>)]}

NoResponse == [kind |-> "None", data |-> JsonObject(<<>>)]

\* _safe_parse_json raises: None, or no span of the text parses
SafeParseRaises(raw) == raw.kind \in {"None", "garbage"}
\* _safe_parse_json(raw), when it does not raise
SafeParseJson(raw) == raw.data

\* ------------------------------------------------------------------------
\* config.py, template_manager.py, content_mapper.py.  A dict is a function
\* on its keys; the value of bullets_per_slide is <<lo, hi>> for a pair and
\* <<n>> for an int.
\* ------------------------------------------------------------------------
Put(d, k, v) == [x \in DOMAIN d \cup {k} |-> IF x = k THEN v ELSE d[x]]
SetDefault(d, k, v) == IF k \in DOMAIN d THEN d ELSE Put(d, k, v)
EmptyDict == [x \in {} |-> 0]

\* defaults that ask for four bullets or more
SLIDE_CONSTRAINTS_FourBullets ==
    [title_max_length |-> 80, subtitle_max_length |-> 100,
     bullet_max_length |-> 120, bullets_per_slide |-> <<4, 5>>,
     min_chars_per_bullet |-> 20]

\* config.SLIDE_CONSTRAINTS
SLIDE_CONSTRAINTS ==
    [title_max_length |-> 80, subtitle_max_length |-> 100,
     bullet_max_length |-> 120, bullets_per_slide |-> <<3, 5>>,
     min_chars_per_bullet |-> 20]

\* ContentMapper.update_constraints
UpdateConstraints(current, incoming) ==
    LET merged == [k \in DOMAIN current \cup DOMAIN incoming |->
                      IF k \in DOMAIN incoming THEN incoming[k] ELSE current[k]]
        bounded ==
            IF "bullets_per_slide" \in DOMAIN merged
                 /\ ("min_bullets" \notin DOMAIN merged
                        \/ "max_bullets" \notin DOMAIN merged)
              THEN LET bps == merged["bullets_per_slide"]
                   IN IF Len(bps) = 2
                        THEN Put(Put(merged, "min_bullets", bps[1]),
                                 "max_bullets", bps[2])
                        ELSE Put(Put(merged, "min_bullets", Max(0, bps[1])),
                                 "max_bullets", bps[1])
              ELSE merged
    IN SetDefault(SetDefault(SetDefault(SetDefault(SetDefault(SetDefault(
         SetDefault(bounded,
            "title_max_length", 80),
            "subtitle_max_length", 100),
            "bullet_max_length", 120),
            "min_chars_per_bullet", 0),
            "min_bullets", 3),
            "max_bullets", 5),
            "slides_minimum", 3)

\* line 35: template_constraints or SLIDE_CONSTRAINTS
ConstructorIncoming(template_constraints) ==
    IF DOMAIN template_constraints = {}
      THEN SLIDE_CONSTRAINTS ELSE template_constraints

\* ContentMapper.__init__(template_constraints)
MapperConstraints(template_constraints) ==
    UpdateConstraints(EmptyDict, ConstructorIncoming(template_constraints))

\* ------------------------------------------------------------------------
\* ContentMapper._truncate character by character.  A str is a sequence of
\* one-character strings; the characters explored are "x", " " and the
\* "." of the ellipsis.
\* ------------------------------------------------------------------------
Chars == {"x", " "}
Ellipsis == <<".", ".", ".">>

\* s[:n] of Python, n of either sign
PyPrefix(s, n) ==
    IF n >= 0 THEN SubSeq(s, 1, Min(n, Len(s)))
    ELSE SubSeq(s, 1, Max(0, Len(s) + n))

\* the number of leading and of trailing whitespace characters
RECURSIVE LeadingSpaces(_)
LeadingSpaces(s) ==
    IF s = <<>> \/ Head(s) # " " THEN 0 ELSE 1 + LeadingSpaces(Tail(s))

RECURSIVE TrailingSpaces(_)
TrailingSpaces(s) ==
    IF s = <<>> \/ s[Len(s)] # " " THEN 0
    ELSE 1 + TrailingSpaces(SubSeq(s, 1, Len(s) - 1))

\* str.rstrip() and str.strip()
RStripChars(s) == SubSeq(s, 1, Len(s) - TrailingSpaces(s))
StripChars(s) ==
    LET r == RStripChars(s) IN SubSeq(r, LeadingSpaces(r) + 1, Len(r))

\* str.rfind(" "): the 0-based index of the last space, or -1
RFindSpace(s) ==
    LET at == {i \in 1..Len(s) : s[i] = " "}
    IN IF at = {} THEN -1 ELSE (CHOOSE i \in at : \A j \in at : j <= i) - 1

\* int(cut * 0.8) for cut > 0
FourFifths(cut) == (cut * 8) \div 10

\* a helper that cuts at max_length and then appends the ellipsis
TruncateCharsNoRoom(text, max_length) ==
    IF text = <<>> THEN <<>>
    ELSE LET s == StripChars(text)
         IN IF Len(s) <= max_length THEN s
            ELSE RStripChars(PyPrefix(s, max_length)) \o Ellipsis

\* a helper that never looks for a word boundary
TruncateCharsHardCut(text, max_length) ==
    IF text = <<>> THEN <<>>
    ELSE LET s == StripChars(text)
             cut == max_length - Len(Ellipsis)
         IN IF Len(s) <= max_length THEN s
            ELSE IF cut <= 0 THEN PyPrefix(Ellipsis, max_length)
            ELSE RStripChars(PyPrefix(s, cut)) \o Ellipsis

\* ContentMapper._truncate(text, max_length)
TruncateChars(text, max_length) ==
    IF text = <<>> THEN <<>>
    ELSE LET s == StripChars(text)
             cut == max_length - Len(Ellipsis)
             chunk == PyPrefix(s, cut)
             last_space == RFindSpace(chunk)
         IN IF Len(s) <= max_length THEN s
            ELSE IF cut <= 0 THEN PyPrefix(Ellipsis, max_length)
            ELSE RStripChars(IF last_space > FourFifths(cut)
                               THEN PyPrefix(chunk, last_space)
                               ELSE chunk) \o Ellipsis

\* the text record of a str: its length and the whitespace strip() removes
TextOf(s) ==
    [id |-> <<"chars", Len(StripChars(s)), 0>>, len |-> Len(s),
     pad |-> Len(s) - Len(StripChars(s))]

\* ------------------------------------------------------------------------
\* _safe_parse_json on the text of a response.  A text is a sequence of
\* lexemes: "{" and "}", "k" for the key "k": (quotes and colon included),
\* "m" for the member "k":1, " " for whitespace, "q" for a double quote and
\* "f" for a fence of three backticks.  None of the lexemes but "{" and "}"
\* holds a brace, so the brace scan of lines 417-431 sees the text as the
\* code does.  A JSON value is <<"obj">> for {}, <<"obj", v>> for {"k": v},
\* <<"num">> for 1 and <<"str", content>> for a string.
\* ------------------------------------------------------------------------
JsonChars == {"{", "}", "k", "m", " ", "q", "f"}

\* the response was None
NoneRaw == <<"None">>

\* line 406: re.sub(r"^```(?:json)?\s*", "", text)
DropLeadingFence(s) ==
    IF s # <<>> /\ s[1] = "f"
      THEN SubSeq(s, 2 + LeadingSpaces(Tail(s)), Len(s))
      ELSE s

\* line 407: re.sub(r"\s*```$", "", text)
DropTrailingFence(s) ==
    IF s # <<>> /\ s[Len(s)] = "f"
      THEN RStripChars(SubSeq(s, 1, Len(s) - 1))
      ELSE s

\* lines 403-407
StripFences(raw) == DropTrailingFence(DropLeadingFence(StripChars(raw)))

\* the index of the first lexeme at or after i that is not whitespace
SkipWs(s, i) == i + LeadingSpaces(SubSeq(s, i, Len(s)))

\* the JSON decoder reads one value at index i: [ok, val, next].  A string
\* ends at the next quote; the quote of a key right after it is followed by
\* a letter, which no JSON text allows after a value
RECURSIVE JsonValue(_, _)
JsonValue(s, i) ==
    LET Fail == [ok |-> FALSE, val |-> <<>>, next |-> i]
    IN IF i > Len(s) THEN Fail
       ELSE IF s[i] = "q"
         THEN LET quotes == {j \in (i + 1)..Len(s) : s[j] \in {"q", "k", "m"}}
                  close == CHOOSE j \in quotes : \A j2 \in quotes : j <= j2
              IN IF quotes = {} \/ s[close] # "q" THEN Fail
                 ELSE [ok |-> TRUE, val |-> <<"str", SubSeq(s, i + 1, close - 1)>>,
                       next |-> close + 1]
       ELSE IF s[i] = "{"
         THEN LET a == SkipWs(s, i + 1)
              IN IF a > Len(s) THEN Fail
                 ELSE IF s[a] = "}"
                   THEN [ok |-> TRUE, val |-> <<"obj">>, next |-> a + 1]
                 ELSE IF s[a] = "m"
                   THEN LET b == SkipWs(s, a + 1)
                        IN IF b <= Len(s) /\ s[b] = "}"
                             THEN [ok |-> TRUE, val |-> <<"obj", <<"num">>>>,
                                   next |-> b + 1]
                             ELSE Fail
                 ELSE IF s[a] = "k"
                   THEN LET v == JsonValue(s, SkipWs(s, a + 1))
                            b == SkipWs(s, v.next)
                        IN IF v.ok /\ b <= Len(s) /\ s[b] = "}"
                             THEN [ok |-> TRUE, val |-> <<"obj", v.val>>,
                                   next |-> b + 1]
                             ELSE Fail
                 ELSE Fail
       ELSE Fail

\* json.loads(text): one value, whitespace around it, nothing else
JsonLoads(s) ==
    LET v == JsonValue(s, SkipWs(s, 1))
    IN IF v.ok /\ SkipWs(s, v.next) > Len(s)
         THEN [ok |-> TRUE, val |-> v.val]
         ELSE [ok |-> FALSE, val |-> <<>>]

\* the number of characters of a string content ("f" is three backticks)
RECURSIVE ContentLen(_)
ContentLen(c) ==
    IF c = <<>> THEN 0
    ELSE (IF Head(c) = "f" THEN 3 ELSE 1) + ContentLen(Tail(c))

\* len(json.dumps(o)): {} is 2 characters, {"k": v} is 7 and those of v
RECURSIVE JsonSize(_)
JsonSize(v) ==
    IF v[1] = "num" THEN 1
    ELSE IF v[1] = "str" THEN 2 + ContentLen(v[2])
    ELSE IF Len(v) = 1 THEN 2
    ELSE 7 + JsonSize(v[2])

\* lines 419-431: the scan from text[i] on with the depth so far; the index
\* of the "}" that brings the depth to 0, or 0 if the text ends before
RECURSIVE SpanEnd(_, _, _)
SpanEnd(s, i, depth) ==
    IF i > Len(s) THEN 0
    ELSE IF s[i] = "{" THEN SpanEnd(s, i + 1, depth + 1)
    ELSE IF s[i] = "}"
      THEN IF depth - 1 = 0 THEN i ELSE SpanEnd(s, i + 1, depth - 1)
    ELSE SpanEnd(s, i + 1, depth)

\* lines 416-431: objs, for the "{" at index start and those after it
RECURSIVE ExtractObjs(_, _)
ExtractObjs(s, start) ==
    IF start > Len(s) THEN <<>>
    ELSE LET end == IF s[start] = "{" THEN SpanEnd(s, start, 0) ELSE 0
             candidate == SubSeq(s, start, end)
         IN (IF end > 0 /\ JsonLoads(candidate).ok
               THEN <<JsonLoads(candidate).val>> ELSE <<>>)
            \o ExtractObjs(s, start + 1)

\* a helper that takes the first object found
FirstObj(objs) == objs[1]

\* line 435: max(objs, key=lambda o: len(json.dumps(o))), the first of the
\* largest
LargestObj(objs) ==
    objs[CHOOSE i \in 1..Len(objs) :
            /\ \A j \in 1..Len(objs) : JsonSize(objs[j]) <= JsonSize(objs[i])
            /\ \A j \in 1..(i - 1) : JsonSize(objs[j]) < JsonSize(objs[i])]

\* _safe_parse_json(raw): the value returned, or the ValueError raised
SafeParseJsonChars(raw) ==
    IF raw = NoneRaw THEN [kind |-> "ValueError", val |-> <<>>]
    ELSE LET text == StripFences(raw)
             objs == ExtractObjs(text, 1)
         IN IF JsonLoads(text).ok
              THEN [kind |-> "value", val |-> JsonLoads(text).val]
            ELSE IF objs = <<>> THEN [kind |-> "ValueError", val |-> <<>>]
            ELSE [kind |-> "value", val |-> LargestObj(objs)]


\* ------------------------------------------------------------------------
\* ContentMapper._truncate and assess_slide on text records
\* ------------------------------------------------------------------------
\* a helper that strips and never shortens
MapTruncateNone(t, max_length) ==
    IF ~Truthy(t) THEN EmptyT ELSE Strip(t)

\* ContentMapper._truncate.  The cut falls at max_length - 3 characters and
\* "..." is appended; the texts explored have no space in the last fifth
\* of the chunk, so the result has max_length characters.
MapTruncate(t, max_length) ==
    IF ~Truthy(t) THEN EmptyT
    ELSE LET s == Strip(t)
         IN IF s.len <= max_length THEN s
            ELSE IF max_length - Len(Ellipsis) <= 0
                   THEN IF PyPrefix(Ellipsis, max_length) = <<>> THEN EmptyT
                        ELSE T("...", 0, 0, Len(PyPrefix(Ellipsis, max_length)))
                   ELSE [s EXCEPT !.len = max_length]

ValidationIssue(severity, code, message) ==
    [severity |-> severity, code |-> code, message |-> message]

\* a helper that asks for regeneration on hard issues only
NeedsRegenHardOnly(empty_title, missing, too_few, closing_empty) ==
    empty_title \/ missing

\* lines 109, 138, 148, 154: needs_regen = True
NeedsRegen(empty_title, missing, too_few, closing_empty) ==
    empty_title \/ missing \/ too_few \/ closing_empty

\* a helper that caps from max_bullets bullets on
TooManyBulletsAtCap(count, max_b) == count >= max_b

\* line 119: len(bullets) > max_b
TooManyBullets(count, max_b) == count > max_b

\* ContentMapper.assess_slide: (normalized, issues, needs_regen)
AssessSlide(slide, c) ==
    LET title == MapTruncate(slide.title, c["title_max_length"])
        subtitle == IF Truthy(slide.subtitle)
                      THEN MapTruncate(slide.subtitle, c["subtitle_max_length"])
                      ELSE slide.subtitle
        empty_title == ~Truthy(Strip(title))
        stripped == SelectSeq([i \in 1..Len(slide.bullet_points) |->
                                  Strip(slide.bullet_points[i])], Truthy)
        min_b == c["min_bullets"]
        max_b == c["max_bullets"]
        too_many == TooManyBullets(Len(stripped), max_b)
        capped == IF too_many THEN SubSeq(stripped, 1, max_b) ELSE stripped
        bullets == [i \in 1..Len(capped) |->
                       MapTruncate(capped[i], c["bullet_max_length"])]
        is_content == slide.slide_type \in {"content_slide", "two_column"}
        missing == is_content /\ Len(bullets) = 0
        too_few == is_content /\ Len(bullets) # 0 /\ Len(bullets) < min_b
        closing_empty == slide.slide_type = "closing_slide" /\ Len(bullets) = 0
    IN [slide |-> [slide EXCEPT !.title = title, !.subtitle = subtitle,
                                !.bullet_points = bullets],
        issues |->
            (IF empty_title
               THEN <<ValidationIssue("hard", "empty_title", <<>>)>> ELSE <<>>)
            \o (IF too_many
                  THEN <<ValidationIssue("soft", "too_many_bullets",
                                         <<Len(stripped), max_b>>)>>
                  ELSE <<>>)
            \o (IF missing
                  THEN <<ValidationIssue("hard", "missing_bullets", <<>>)>>
                  ELSE <<>>)
            \o (IF too_few
                  THEN <<ValidationIssue("soft", "too_few_bullets",
                                         <<Len(bullets), min_b>>)>>
                  ELSE <<>>)
            \o (IF closing_empty
                  THEN <<ValidationIssue("soft", "closing_no_bullets", <<>>)>>
                  ELSE <<>>),
        needs_regen |-> NeedsRegen(empty_title, missing, too_few, closing_empty)]

\* a helper in which updated is the slide passed in, not a copy
InputAfterAssessAliased(slide, c) == AssessSlide(slide, c).slide

\* line 96: updated = slide.model_copy(deep=True); the assignments of lines
\* 102-131 go to the copy, and the slide passed in keeps its fields
InputAfterAssess(slide, c) == slide

\* the loop over outline.slides in PresentationOrchestrator.generate
RECURSIVE AssessIssues(_, _)
AssessIssues(slides, c) ==
    IF slides = <<>> THEN <<>>
    ELSE AssessSlide(Head(slides), c).issues \o AssessIssues(Tail(slides), c)

AssessOutline(slides, c) ==
    [normalized_slides |-> [i \in 1..Len(slides) |-> AssessSlide(slides[i], c).slide],
     all_issues |-> AssessIssues(slides, c),
     needs_regen |-> \E i \in 1..Len(slides) : AssessSlide(slides[i], c).needs_regen]

\* PresentationOrchestrator._format_feedback: the lines of the text
RECURSIVE FeedbackLines(_, _)
FeedbackLines(issues, seen) ==
    IF issues = <<>> THEN <<>>
    ELSE IF Head(issues) \in seen THEN FeedbackLines(Tail(issues), seen)
    ELSE <<[prefix |-> IF Head(issues).severity = "hard"
                         THEN "MUST FIX" ELSE "SHOULD FIX",
            code |-> Head(issues).code, message |-> Head(issues).message]>>
         \o FeedbackLines(Tail(issues), seen \cup {Head(issues)})

OrchFormatFeedback(issues) ==
    FeedbackLines(issues, {})
    \o <<[prefix |-> "MUST RETURN", code |-> "json_only", message |-> <<>>],
         [prefix |-> "MUST RESPECT", code |-> "limits", message |-> <<>>]>>

\* the keyword arguments a call leaves out
MissingKeywords(required, passed) == required \ passed

\* _regen_with_feedback, line 172: gen._build_system_prompt(tone, constraints)
\* against the signature of content_generator.py line 317, whose num_slides
\* is keyword-only and has no default: the call raises TypeError
RegenWithFeedbackRaises ==
    MissingKeywords({"num_slides"}, {}) # {}

\* _supports_feedback_regen: the generator has the four helpers
SupportsFeedbackRegen(gen) == gen = "ContentGenerator"

\* ------------------------------------------------------------------------
\* State
\* ------------------------------------------------------------------------
VARIABLES
    \* ContentGenerator instance (set by __init__)
    max_retries, groq_key, gemini_key, openai_key, force_fallback,
    deterministic_fallback, model,
    \* one call of generate_presentation_outline
    pc, topic, num_slides, audience, attempt, best_outline, best_issue_count,
    feedback, chain, ci, result,
    \* bookkeeping of the run (not program state)
    ncalls, chain0, last_success, best_attempt, min_issues, min_attempt,
    min_outline, ok_attempt,
    \* one invocation of _call_api: the completion calls made so far, and
    \* the error the last invocation raised
    tried, api_error,
    \* the hash key of the interpreter process, and the first generation
    \* of the deterministic synthetic outline seen (not program state)
    hash_salt, det_first,
    \* PresentationOrchestrator instance and one call of generate
    content_generator, max_regen_attempts, constraints,
    o_pc, o_topic, o_num_slides, o_attempt, o_feedback, o_outline, o_result,
    \* bookkeeping of the orchestrator's run (not program state)
    generate_steps, generator_calls, assessed, flagged, rendered,
    \* the slides the last GENERATE step got and the issues of the last
    \* ASSESS step (not program state)
    generated, last_issues,
    \* one call of ContentMapper.assess_slide: the caller's slide object and
    \* the result; the value the slide had when it was passed in, and the
    \* result of the call before when the argument is the slide that call
    \* returned (not program state)
    m_slide, m_result, m_arg, m_prev,
    \* the dict the last call of ContentMapper(...) or update_constraints
    \* merged in (not program state)
    m_incoming,
    \* one call of ContentMapper._truncate: its arguments and its result
    tr_text, tr_max_length, tr_result,
    \* lines 127-130 of the attempt run on their own: the data handed to
    \* _parse_outline_response, expected_slides, how far the lines got, the
    \* outline they hold and the issues of _validate_outline
    p_data, p_expected, p_stage, p_outline, p_issues,
    \* one call of _safe_parse_json: the response text and the outcome
    j_raw, j_result

cfgVars == <<max_retries, groq_key, gemini_key, openai_key, force_fallback,
             deterministic_fallback>>
callVars == <<pc, topic, num_slides, audience, attempt, best_outline,
              best_issue_count, feedback, chain, ci, result>>
logVars == <<ncalls, chain0, last_success, best_attempt, min_issues,
             min_attempt, min_outline, ok_attempt>>
apiVars == <<tried, api_error>>
procVars == <<hash_salt, det_first>>
vars == <<cfgVars, model, callVars, logVars, apiVars, procVars>>
truncVars == <<tr_text, tr_max_length, tr_result>>
parseVars == <<p_data, p_expected, p_stage, p_outline, p_issues>>
jsonVars == <<j_raw, j_result>>
mapVars == <<m_slide, m_result, m_arg, m_prev, m_incoming, truncVars,
             parseVars, jsonVars>>
orchLog == <<generated, last_issues>>
orchVars == <<content_generator, max_regen_attempts, constraints,
              o_pc, o_topic, o_num_slides, o_attempt, o_feedback, o_outline,
              o_result, generate_steps, generator_calls, assessed, flagged,
              rendered, orchLog, mapVars>>
allVars == <<vars, orchVars>>
orchOwn == <<content_generator, max_regen_attempts, constraints,
             o_pc, o_topic, o_num_slides, o_attempt, o_feedback, o_outline,
             o_result, generate_steps, generator_calls, assessed, flagged,
             rendered, orchLog>>
callOwn == <<m_slide, m_result, m_arg, m_prev, truncVars>>
mapperOwn == <<callOwn, m_incoming>>

\* inputs explored
TopicsIn == {EmptyT, BlankT(2), T("topic", 0, 0, 12), T("topic", 1, 0, 49),
             T("topic", 2, 0, 200)}
NumSlidesIn == {-1, 0, 25} \cup (MIN_SLIDES..MAX_SLIDES)
AudiencesIn == {NoneT, T("audience", 0, 0, 10)}

\* the inputs explored on the path through the attempt loop
LoopInputs ==
    ({EmptyT, BlankT(2)} \X NumSlidesIn \X AudiencesIn)
    \cup {<<T("topic", 0, 0, 12), 0, NoneT>>,
          <<T("topic", 1, 0, 49), 4, T("audience", 0, 0, 10)>>,
          <<T("topic", 2, 0, 200), 4, NoneT>>}

\* environments explored: are GROQ_API_KEY, GEMINI_API_KEY, OPENAI_API_KEY
\* set, and the value of MODEL
EnvConfigs == {<<FALSE, FALSE, FALSE, "gpt-3.5-turbo">>,
               <<TRUE, FALSE, FALSE, "gpt-3.5-turbo">>,
               <<TRUE, FALSE, FALSE, "llama3-8b-8192">>,
               <<FALSE, TRUE, FALSE, "">>,
               <<FALSE, TRUE, TRUE, "gemini/gemini-pro">>}

NoResult == [kind |-> "none", via |-> "none", outline |-> NoOutline]

\* last_err of an invocation of _call_api that did not raise
NoError == [tried |-> <<>>, chain |-> <<>>, default |-> "none"]

\* one completion(...) call: the model called and how the call ended
ApiCall(m, outcome) == [model |-> m, outcome |-> outcome]

\* no deterministic synthetic outline was generated yet
NoGeneration == [args |-> <<>>, outline |-> NoOutline]

NoFeedback == <<>>
NoRun == [kind |-> "none", origin |-> "none"]

\* no slide was handed to assess_slide yet
NoSlide == [slide_number |-> 0, slide_type |-> "none", title |-> NoneT,
            subtitle |-> NoneT, bullet_points |-> <<>>]
NoAssessment == [slide |-> NoSlide, issues |-> <<>>, needs_regen |-> FALSE]

\* _truncate was not called yet
NoTruncation == <<"none">>

\* no data was handed to _parse_outline_response yet
NoData == [obj |-> FALSE, slides_is_list |-> FALSE, slides |-> <<>>,
           title |-> NoneT, topic |-> NoneT]

\* _safe_parse_json was not called yet
NoJson == [kind |-> "none", val |-> <<>>]

HelpersParked ==
    /\ p_data = NoData /\ p_expected = 0 /\ p_stage = "idle"
    /\ p_outline = NoOutline /\ p_issues = <<>>
    /\ j_raw = <<>> /\ j_result = NoJson

MapperCallsParked ==
    /\ m_slide = NoSlide /\ m_result = NoAssessment
    /\ m_arg = NoSlide /\ m_prev = NoAssessment
    /\ tr_text = <<>> /\ tr_max_length = 0 /\ tr_result = NoTruncation
    /\ HelpersParked

\* no ContentMapper is looked at on its own
MapperParked ==
    /\ MapperCallsParked
    /\ m_incoming = EmptyDict

\* no call of PresentationOrchestrator.generate is under way
OrchParked ==
    /\ content_generator = "ContentGenerator"
    /\ max_regen_attempts = 1
    /\ constraints = EmptyDict
    /\ o_pc = "idle"
    /\ o_topic = NoneT /\ o_num_slides = 0
    /\ o_attempt = 0 /\ o_feedback = NoFeedback
    /\ o_outline = NoOutline /\ o_result = NoRun
    /\ generate_steps = 0 /\ generator_calls = 0
    /\ assessed = 0 /\ flagged = 0 /\ rendered = <<>>
    /\ generated = <<>> /\ last_issues = <<>>
    /\ MapperParked

\* ContentGenerator.__init__
Init ==
    /\ OrchParked
    /\ \E r \in 0..MaxRetriesEnv : max_retries = Max(1, r)
    /\ \E e \in EnvConfigs :
          /\ groq_key = e[1] /\ gemini_key = e[2] /\ openai_key = e[3]
          /\ model = NormalizeModelName(e[4], e[1])
    /\ force_fallback \in BOOLEAN
    /\ deterministic_fallback = FALSE
    /\ pc = "idle"
    /\ topic = NoneT /\ num_slides = 0 /\ audience = NoneT
    /\ attempt = 0
    /\ best_outline = NoOutline /\ best_issue_count = BEST_INIT
    /\ feedback = "None"
    /\ chain = <<>> /\ ci = 0
    /\ result = NoResult
    /\ ncalls = 0 /\ chain0 = 0
    /\ last_success = "none" /\ best_attempt = 0
    /\ min_issues = -1 /\ min_attempt = 0 /\ min_outline = NoOutline
    /\ ok_attempt = 0
    /\ tried = <<>> /\ api_error = NoError
    /\ hash_salt = 0 /\ det_first = NoGeneration

\* ------------------------------------------------------------------------
\* generate_presentation_outline
\* ------------------------------------------------------------------------
\* return <outline> / a raise that leaves the method
Finish(kind, via, outline) ==
    /\ pc' = "done"
    /\ result' = [kind |-> kind, via |-> via, outline |-> outline]

\* the arguments _fallback_outline is called with: lines 103, 105-110, 185
FallbackArgs ==
    ({T("Untitled Topic", 0, 0, 14)}
        \X {IF n = 0 THEN DEFAULT_SLIDES_EMPTY ELSE n : n \in NumSlidesIn}
        \X AudiencesIn \X Seeds)
    \cup ({Strip(t) : t \in {x \in TopicsIn : Truthy(Strip(x))}}
        \X {Max(MIN_SLIDES, Min(n, MAX_SLIDES)) : n \in NumSlidesIn}
        \X AudiencesIn \X Seeds)

\* _fallback_outline(topic, num_slides, audience) with the draws of seed:
\* it raises, or returns an outline
FallbackResult(t, n, aud, seed) ==
    IF FallbackRaises(t, n, aud, seed)
      THEN [raised |-> TRUE, outline |-> NoOutline]
      ELSE [raised |-> FALSE, outline |-> FallbackOutline(t, n, aud, seed)]

\* the results, tabulated by argument
FallbackTable ==
    {<<a, FallbackResult(a[1], a[2], a[3], a[4])>> : a \in FallbackArgs}

FallbackLookup(t, n, aud, seed) ==
    (CHOOSE p \in FallbackTable : p[1] = <<t, n, aud, seed>>)[2]

\* return self._fallback_outline(t, n, audience, tone)
ReturnFallback(t, n, aud) ==
    \E seed \in (IF deterministic_fallback
                   THEN {DetSeed(t, aud, n, hash_salt)} ELSE Seeds) :
        IF FallbackLookup(t, n, aud, seed).raised
          THEN Finish("raised", "fallback", NoOutline)
          ELSE Finish("outline", "fallback",
                      FallbackLookup(t, n, aud, seed).outline)

\* the for loop goes to attempt a: _call_api builds its candidate list
StartAttempt(a, m) ==
    /\ attempt' = a
    /\ chain' = CandidateChain(m, groq_key, gemini_key, openai_key)
    /\ ci' = 1
    /\ tried' = <<>>
    /\ pc' = "call"

\* statements after the loop that discard a best effort
AfterLoopFallbackOnly(bo) ==
    /\ ReturnFallback(topic, num_slides, audience)
    /\ tried' = <<>>
    /\ UNCHANGED <<attempt, chain, ci>>

\* the statements after the loop, lines 173-185
AfterLoop(bo) ==
    /\ IF bo # NoOutline
         THEN Finish("outline", "best", bo)
         ELSE ReturnFallback(topic, num_slides, audience)
    /\ tried' = <<>>
    /\ UNCHANGED <<attempt, chain, ci>>

\* a loop with one more iteration: range(1, max_retries + 2)
NextIterationInclusive(m, bo) ==
    IF attempt <= max_retries
      THEN StartAttempt(attempt + 1, m) /\ UNCHANGED result
      ELSE AfterLoop(bo)

\* the end of one loop iteration
NextIteration(m, bo) ==
    IF attempt < max_retries
      THEN StartAttempt(attempt + 1, m) /\ UNCHANGED result
      ELSE AfterLoop(bo)

\* an except branch that keeps the feedback of the attempt before
AttemptRaisedKeepsFeedback ==
    /\ feedback' = feedback
    /\ NextIteration(model, best_outline)
    /\ UNCHANGED <<model, best_outline, best_issue_count, best_attempt,
                   min_issues, min_attempt, min_outline, ok_attempt>>

\* except Exception, lines 165-171
AttemptRaised ==
    /\ feedback' = "invalid_or_unparsable"
    /\ NextIteration(model, best_outline)
    /\ UNCHANGED <<model, best_outline, best_issue_count, best_attempt,
                   min_issues, min_attempt, min_outline, ok_attempt>>

\* lines 101-119: the entry of the method up to the loop
GenCall ==
    /\ pc = "idle"
    /\ UNCHANGED orchVars
    /\ \E topic_in \in TopicsIn, n_in \in NumSlidesIn, aud \in AudiencesIn :
         LET t == Strip(OrElse(topic_in, EmptyT))
             clamped == Max(MIN_SLIDES, Min(n_in, MAX_SLIDES))
         IN /\ force_fallback \/ <<topic_in, n_in, aud>> \in LoopInputs
            /\ audience' = aud
            /\ best_outline' = NoOutline
            /\ best_issue_count' = BEST_INIT
            /\ feedback' = "None"
            /\ ncalls' = 0
            /\ best_attempt' = 0 /\ min_issues' = -1 /\ min_attempt' = 0
            /\ min_outline' = NoOutline /\ ok_attempt' = 0
            /\ api_error' = NoError
            /\ UNCHANGED <<cfgVars, model, last_success>>
            /\ IF ~Truthy(t)
                 THEN /\ topic' = T("Untitled Topic", 0, 0, 14)
                      /\ num_slides' = (IF n_in = 0 THEN DEFAULT_SLIDES_EMPTY ELSE n_in)
                      /\ ReturnFallback(topic', num_slides', aud)
                      /\ attempt' = 0 /\ chain' = <<>> /\ ci' = 0
                      /\ tried' = <<>>
                      /\ chain0' = 0
                 ELSE /\ topic' = t
                      /\ num_slides' = clamped
                      /\ IF force_fallback
                           THEN /\ ReturnFallback(t, clamped, aud)
                                /\ attempt' = 0 /\ chain' = <<>> /\ ci' = 0
                                /\ tried' = <<>>
                                /\ chain0' = 0
                           ELSE /\ StartAttempt(1, model)
                                /\ chain0' = Len(chain')
                                /\ result' = NoResult
            /\ hash_salt' = hash_salt
            /\ det_first' =
                  IF deterministic_fallback /\ det_first = NoGeneration
                       /\ result'.kind = "outline" /\ result'.via = "fallback"
                    THEN [args |-> <<topic', num_slides', aud>>,
                          outline |-> result'.outline]
                    ELSE det_first

\* _call_api: completion(...) for candidates[ci] returns a response
CallSucceeds ==
    /\ pc = "call"
    /\ UNCHANGED orchVars
    /\ UNCHANGED procVars
    /\ model' = chain[ci]
    /\ last_success' = chain[ci]
    /\ ncalls' = ncalls + 1
    /\ tried' = Append(tried, ApiCall(chain[ci], "ok"))
    /\ api_error' = NoError
    /\ pc' = "process"
    /\ UNCHANGED <<cfgVars, topic, num_slides, audience, attempt, best_outline,
                   best_issue_count, feedback, chain, ci, result,
                   chain0, best_attempt, min_issues, min_attempt, min_outline,
                   ok_attempt>>

\* _call_api: completion(...) for candidates[ci] raises and the loop
\* continues with the next candidate (lines 293-295, 302-304)
CallSkips ==
    /\ pc = "call"
    /\ UNCHANGED orchVars
    /\ UNCHANGED procVars
    /\ \E failure \in Failures :
         /\ SkipsToNext(chain[ci], failure)
         /\ ci < Len(chain)
         /\ tried' = Append(tried, ApiCall(chain[ci], failure))
    /\ api_error' = NoError
    /\ ci' = ci + 1
    /\ ncalls' = ncalls + 1
    /\ UNCHANGED <<cfgVars, model, pc, topic, num_slides, audience, attempt,
                   best_outline, best_issue_count, feedback, chain, result,
                   chain0, last_success, best_attempt, min_issues,
                   min_attempt, min_outline, ok_attempt>>

\* _call_api raises (lines 299, 307, 310-311): the attempt ends in except
CallRaises ==
    /\ pc = "call"
    /\ UNCHANGED orchVars
    /\ UNCHANGED procVars
    /\ \E failure \in Failures :
         /\ ~(SkipsToNext(chain[ci], failure) /\ ci < Len(chain))
         /\ api_error' = [tried |-> Append(tried, ApiCall(chain[ci], failure)),
                           chain |-> chain, default |-> model]
    /\ ncalls' = ncalls + 1
    /\ UNCHANGED <<cfgVars, topic, num_slides, audience, chain0, last_success>>
    /\ AttemptRaised

\* lines 125-130: the response text r is parsed, converted, normalized and
\* validated; raised says that one of the calls raises
TryResponse(r, expected_slides) ==
    IF SafeParseRaises(r) \/ ParseRaises(SafeParseJson(r))
      THEN [raised |-> TRUE, outline |-> NoOutline, issues |-> <<>>]
      ELSE LET outline == NormalizeOutline(
                             ParseOutlineResponse(SafeParseJson(r)), expected_slides)
           IN [raised |-> FALSE, outline |-> outline,
               issues |-> ValidateOutline(outline, expected_slides)]

\* the slide counts the attempt loop runs with (line 106)
LoopSlideCounts ==
    {Max(MIN_SLIDES, Min(x[2], MAX_SLIDES)) :
        x \in {y \in LoopInputs : Truthy(Strip(y[1]))}}

\* what lines 125-130 can yield, tabulated by slide count
TryTable ==
    {<<n, TryResponse(r, n)>> : n \in LoopSlideCounts, r \in Responses}

TryResults(n) == {p[2] : p \in {q \in TryTable : q[1] = n}}

\* a comparison that replaces the best effort on ties
IsBetterOrEqual(issue_count, best_count) == issue_count <= best_count

\* lines 137-139: is this attempt the new best effort
IsBetter(issue_count, best_count) == issue_count < best_count

\* line 148: the last attempt returns a close enough best effort
GoodEnough(a, retries, bo, bc) ==
    a = retries /\ bo # NoOutline /\ bc <= GOOD_ENOUGH

\* an escalation that does not wait for the second attempt
EscalateFromFirstAttempt(a, m, groq) ==
    IF EndsWith8B(m) /\ groq THEN GROQ_70B ELSE m

\* lines 159-163: the model after the escalation step
Escalate(a, m, groq) ==
    IF a >= 2 /\ EndsWith8B(m) /\ groq THEN GROQ_70B ELSE m

\* a test that lets one issue pass
OutlineOkLax(issues) == Len(issues) <= 1

\* line 132 / 585: ok = (len(issues) == 0)
OutlineOk(issues) == Len(issues) = 0

\* lines 125-128 raise on the response of the model
ResponseRaises ==
    /\ pc = "process"
    /\ UNCHANGED orchVars
    /\ UNCHANGED procVars
    /\ \E t \in TryResults(num_slides) : t.raised
    /\ UNCHANGED <<cfgVars, topic, num_slides, audience, ncalls, chain0,
                   last_success, api_error>>
    /\ AttemptRaised

\* lines 130-163: the response gave an outline, which is validated
ResponseValidated ==
    /\ pc = "process"
    /\ UNCHANGED orchVars
    /\ UNCHANGED procVars
    /\ UNCHANGED <<cfgVars, topic, num_slides, audience, ncalls, chain0,
                   last_success, api_error>>
    /\ \E t \in TryResults(num_slides) :
         /\ ~t.raised
         /\ LET n == Len(t.issues)
                better == IsBetter(n, best_issue_count)
                bo == IF better THEN t.outline ELSE best_outline
                bc == IF better THEN n ELSE best_issue_count
                escalated == Escalate(attempt, model, groq_key)
                first == min_attempt = 0 \/ n < min_issues
            IN IF OutlineOk(t.issues)
                 THEN \* return outline
                      /\ Finish("outline", "valid", t.outline)
                      /\ ok_attempt' = attempt
                      /\ tried' = <<>>
                      /\ UNCHANGED <<model, attempt, best_outline,
                                     best_issue_count, feedback, chain, ci,
                                     best_attempt, min_issues, min_attempt,
                                     min_outline>>
                 ELSE /\ best_outline' = bo
                      /\ best_issue_count' = bc
                      /\ best_attempt' = (IF better THEN attempt ELSE best_attempt)
                      /\ min_issues' = (IF first THEN n ELSE min_issues)
                      /\ min_attempt' = (IF first THEN attempt ELSE min_attempt)
                      /\ min_outline' = (IF first THEN t.outline ELSE min_outline)
                      /\ UNCHANGED ok_attempt
                      /\ IF GoodEnough(attempt, max_retries, bo, bc)
                           THEN \* return best_outline
                                /\ Finish("outline", "best_effort", bo)
                                /\ tried' = <<>>
                                /\ UNCHANGED <<model, attempt, feedback, chain, ci>>
                           ELSE /\ feedback' = "validation_issues"
                                /\ model' = escalated
                                /\ NextIteration(escalated, bo)

\* the caller takes the result; the instance is ready for another call
Returned ==
    /\ pc = "done"
    /\ UNCHANGED orchVars
    /\ UNCHANGED procVars
    /\ pc' = "idle"
    /\ topic' = NoneT /\ num_slides' = 0 /\ audience' = NoneT
    /\ attempt' = 0
    /\ best_outline' = NoOutline /\ best_issue_count' = BEST_INIT
    /\ feedback' = "None"
    /\ chain' = <<>> /\ ci' = 0
    /\ result' = NoResult
    /\ ncalls' = 0 /\ chain0' = 0 /\ best_attempt' = 0
    /\ min_issues' = -1 /\ min_attempt' = 0 /\ min_outline' = NoOutline
    /\ ok_attempt' = 0
    /\ tried' = <<>> /\ api_error' = NoError
    /\ UNCHANGED <<cfgVars, model, last_success>>

\* ------------------------------------------------------------------------
\* PresentationOrchestrator.generate.  The generator is taken by what one
\* call of generate_presentation_outline can give back.
\* ------------------------------------------------------------------------
\* the calls explored: topic, num_slides, audience
OrchInputs == {x \in LoopInputs : Truthy(Strip(x[1]))}

\* constraints of the template: {} for a pptx template, or those of a
\* template folder
TemplateConstraints ==
    {EmptyDict,
     [max_bullets |-> 4, bullet_max_length |-> 25, title_max_length |-> 30],
     [bullets_per_slide |-> <<2>>]}

\* what generate_presentation_outline(topic, num_slides, audience) can do:
\* return the outline of an attempt (valid, or the best effort), return the
\* synthetic outline, or raise out of _fallback_outline
GeneratorOutcomes(x) ==
    LET t == Strip(x[1])
        n == Max(MIN_SLIDES, Min(x[2], MAX_SLIDES))
    IN {[raised |-> FALSE, outline |-> r.outline] :
            r \in {q \in TryResults(n) : ~q.raised}}
       \cup {FallbackLookup(t, n, x[3], seed) : seed \in Seeds}

GeneratorTable ==
    UNION {{<<x, r>> : r \in GeneratorOutcomes(x)} : x \in OrchInputs}

\* the slides a substitute generator (content_generator=...) hands back:
\* any SlideOutline objects, not normalized by ContentGenerator
SubstituteSlides ==
    <<SlideOutline(1, "title_slide", T("title", 1, 0, TITLE_MAX), NoneT,
                   <<T("bullet", 1, 1, 30)>>),
      SlideOutline(2, "content_slide", T("title", 2, 0, TITLE_MAX), NoneT,
                   [k \in 1..5 |-> T("bullet", 2, k, BULLET_MAX)]),
      SlideOutline(3, "content_slide", T("title", 3, 0, 20), NoneT, <<>>),
      SlideOutline(4, "closing_slide", T("title", 4, 0, 20), NoneT, <<>>)>>

SubstituteOutcomes(x) ==
    {[raised |-> FALSE,
      outline |-> PresentationOutline(NoneT, Strip(x[1]),
                                      SubSeq(SubstituteSlides, 1, n))] :
        n \in 2..Len(SubstituteSlides)}

SubstituteTable ==
    UNION {{<<x, r>> : r \in SubstituteOutcomes(x)} : x \in OrchInputs}

\* the requests explored with a ContentGenerator built under
\* DOCGEN_FORCE_FALLBACK=1: every slide count the clamp lets through
ForcedInputs ==
    {x \in TopicsIn : Truthy(Strip(x))} \X (MIN_SLIDES..MAX_SLIDES) \X AudiencesIn

\* lines 108-110: under forced fallback generate_presentation_outline
\* returns the synthetic outline (or raises out of _fallback_outline)
ForcedOutcomes(x) ==
    {FallbackLookup(Strip(x[1]), Max(MIN_SLIDES, Min(x[2], MAX_SLIDES)), x[3], seed) :
        seed \in Seeds}

ForcedTable ==
    UNION {{<<x, r>> : r \in ForcedOutcomes(x)} : x \in ForcedInputs}

\* what content_generator.generate_presentation_outline can give back
OutcomesOf(gen) ==
    IF gen = "ContentGenerator" THEN GeneratorTable
    ELSE GeneratorTable \cup SubstituteTable

\* the generator is a ContentGenerator whose force_fallback is set
ForcedFallbackMode == force_fallback /\ content_generator = "ContentGenerator"

\* a raise that leaves generate, or its return
OrchFinish(kind, origin) ==
    /\ o_pc' = "returned"
    /\ o_result' = [kind |-> kind, origin |-> origin]

\* line 43: load_template raises (no such template)
OrchLoadTemplateFails ==
    /\ o_pc = "idle"
    /\ OrchFinish("raised", "template")
    /\ UNCHANGED <<vars, mapVars, content_generator, max_regen_attempts, constraints,
                   o_topic, o_num_slides, o_attempt, o_feedback, o_outline,
                   generate_steps, generator_calls, assessed, flagged,
                   rendered, orchLog>>

\* lines 43-56: the template loads, the mapper is made, the loop starts
OrchStart ==
    /\ o_pc = "idle"
    /\ \E x \in (IF ForcedFallbackMode THEN ForcedInputs ELSE OrchInputs),
          tc \in TemplateConstraints :
         /\ o_topic' = x[1]
         /\ o_num_slides' = x[2]
         /\ constraints' = MapperConstraints(tc)
    /\ o_pc' = "GENERATE"
    /\ o_attempt' = 1
    /\ o_feedback' = NoFeedback
    /\ o_outline' = NoOutline
    /\ UNCHANGED <<vars, mapVars, content_generator, max_regen_attempts, o_result,
                   generate_steps, generator_calls, assessed, flagged,
                   rendered, orchLog>>

\* _generate_outline takes the branch of _regen_with_feedback
TakesRegenPath == o_feedback # NoFeedback /\ SupportsFeedbackRegen(content_generator)

\* _generate_outline, lines 137-143: the public API of the generator
OrchGenerate ==
    /\ o_pc = "GENERATE"
    /\ ~TakesRegenPath
    /\ generate_steps' = generate_steps + 1
    /\ generator_calls' = generator_calls + 1
    /\ \E p \in (IF ForcedFallbackMode THEN ForcedTable
                 ELSE OutcomesOf(content_generator)) :
         /\ p[1][1] = o_topic /\ p[1][2] = o_num_slides
         /\ IF p[2].raised
              THEN /\ OrchFinish("raised", "generator")
                   /\ UNCHANGED <<o_outline, generated>>
              ELSE /\ o_outline' = p[2].outline
                   /\ generated' = p[2].outline.slides
                   /\ o_pc' = "ASSESS"
                   /\ UNCHANGED o_result
    /\ UNCHANGED <<vars, mapVars, content_generator, max_regen_attempts, constraints,
                   o_topic, o_num_slides, o_attempt, o_feedback, assessed,
                   flagged, rendered, last_issues>>

\* _generate_outline, lines 134-135: _regen_with_feedback
OrchRegenWithFeedback ==
    /\ o_pc = "GENERATE"
    /\ TakesRegenPath
    /\ generate_steps' = generate_steps + 1
    /\ RegenWithFeedbackRaises
    /\ OrchFinish("raised", "regen_with_feedback")
    /\ UNCHANGED <<vars, mapVars, content_generator, max_regen_attempts, constraints,
                   o_topic, o_num_slides, o_attempt, o_feedback, o_outline,
                   generator_calls, assessed, flagged, rendered, orchLog>>

\* a helper that keeps the generated slides of an attempt that is flagged
WriteBackUnlessFlagged(outline, a) ==
    IF a.needs_regen THEN outline
    ELSE [outline EXCEPT !.slides = a.normalized_slides]

\* line 71: outline.slides = normalized_slides
WriteBack(outline, a) == [outline EXCEPT !.slides = a.normalized_slides]

\* a helper that goes on as long as any issue was recorded
StopsLoopWithoutIssues(needs_regen, all_issues) == all_issues = <<>>

\* lines 73-75: if not needs_regen: break
StopsLoop(needs_regen, all_issues) == ~needs_regen

\* a helper that keeps the feedback of the first flagged attempt
NextFeedbackKeepsFirst(current, all_issues) ==
    IF current = NoFeedback THEN OrchFormatFeedback(all_issues) ELSE current

\* line 78: feedback = self._format_feedback(all_issues, attempt)
NextFeedback(current, all_issues) == OrchFormatFeedback(all_issues)

\* lines 59-86: every slide is assessed, the normalized slides are written
\* back, and the loop breaks or goes on
OrchAssess ==
    /\ o_pc = "ASSESS"
    /\ LET a == AssessOutline(o_outline.slides, constraints)
       IN /\ o_outline' = WriteBack(o_outline, a)
          /\ assessed' = assessed + 1
          /\ last_issues' = a.all_issues
          /\ flagged' = IF a.needs_regen THEN flagged + 1 ELSE flagged
          /\ IF StopsLoop(a.needs_regen, a.all_issues)
               THEN /\ o_pc' = "DONE"
                    /\ UNCHANGED <<o_feedback, o_attempt>>
               ELSE /\ o_feedback' = NextFeedback(o_feedback, a.all_issues)
                    /\ IF o_attempt < max_regen_attempts
                         THEN o_attempt' = o_attempt + 1 /\ o_pc' = "GENERATE"
                         ELSE o_pc' = "DONE" /\ UNCHANGED o_attempt
    /\ UNCHANGED <<vars, mapVars, content_generator, max_regen_attempts, constraints,
                   o_topic, o_num_slides, o_result, generate_steps,
                   generator_calls, rendered, generated>>

\* lines 94-114: the outline goes to the renderer and the file is saved;
\* both are collaborators that can raise
OrchBuild ==
    /\ o_pc = "DONE"
    /\ rendered' = o_outline.slides
    /\ \E outcome \in {"ok", "render", "save"} :
         IF outcome = "ok"
           THEN OrchFinish("path", "save")
           ELSE OrchFinish("raised", outcome)
    /\ UNCHANGED <<vars, mapVars, content_generator, max_regen_attempts, constraints,
                   o_topic, o_num_slides, o_attempt, o_feedback, o_outline,
                   generate_steps, generator_calls, assessed, flagged,
                   orchLog>>

\* the caller has the path or the error; the orchestrator can run again
OrchReturned ==
    /\ o_pc = "returned"
    /\ o_pc' = "idle"
    /\ constraints' = EmptyDict
    /\ o_topic' = NoneT /\ o_num_slides' = 0
    /\ o_attempt' = 0 /\ o_feedback' = NoFeedback
    /\ o_outline' = NoOutline /\ o_result' = NoRun
    /\ generate_steps' = 0 /\ generator_calls' = 0
    /\ assessed' = 0 /\ flagged' = 0 /\ rendered' = <<>>
    /\ generated' = <<>> /\ last_issues' = <<>>
    /\ UNCHANGED <<vars, mapVars, content_generator, max_regen_attempts>>

Next ==
    \/ GenCall
    \/ CallSucceeds
    \/ CallSkips
    \/ CallRaises
    \/ ResponseRaises
    \/ ResponseValidated
    \/ Returned

Spec == Init /\ [][Next]_allVars

\* no call of generate_presentation_outline is under way: the generator is
\* seen through GeneratorOutcomes
GenIdle ==
    /\ max_retries = 1
    /\ groq_key = FALSE /\ gemini_key = FALSE /\ openai_key = FALSE
    /\ deterministic_fallback = FALSE
    /\ model = NormalizeModelName("", FALSE)
    /\ pc = "idle"
    /\ topic = NoneT /\ num_slides = 0 /\ audience = NoneT
    /\ attempt = 0
    /\ best_outline = NoOutline /\ best_issue_count = BEST_INIT
    /\ feedback = "None"
    /\ chain = <<>> /\ ci = 0
    /\ result = NoResult
    /\ ncalls = 0 /\ chain0 = 0
    /\ last_success = "none" /\ best_attempt = 0
    /\ min_issues = -1 /\ min_attempt = 0 /\ min_outline = NoOutline
    /\ ok_attempt = 0
    /\ tried = <<>> /\ api_error = NoError
    /\ hash_salt = 0 /\ det_first = NoGeneration

GenParked ==
    /\ GenIdle
    /\ force_fallback = FALSE

\* PresentationOrchestrator.__init__
InitOrch ==
    /\ GenIdle
    /\ content_generator \in {"ContentGenerator", "public_api_only"}
    /\ force_fallback \in
          (IF content_generator = "ContentGenerator" THEN BOOLEAN ELSE {FALSE})
    /\ \E r \in 0..MaxRegen : max_regen_attempts = Max(1, r)
    /\ constraints = EmptyDict
    /\ o_pc = "idle"
    /\ o_topic = NoneT /\ o_num_slides = 0
    /\ o_attempt = 0 /\ o_feedback = NoFeedback
    /\ o_outline = NoOutline /\ o_result = NoRun
    /\ generate_steps = 0 /\ generator_calls = 0
    /\ assessed = 0 /\ flagged = 0 /\ rendered = <<>>
    /\ generated = <<>> /\ last_issues = <<>>
    /\ MapperParked

OrchNext ==
    \/ OrchLoadTemplateFails
    \/ OrchStart
    \/ OrchGenerate
    \/ OrchRegenWithFeedback
    \/ OrchAssess
    \/ OrchBuild
    \/ OrchReturned

SpecOrch == InitOrch /\ [][OrchNext]_allVars

\* ------------------------------------------------------------------------
\* ContentMapper on its own: a mapper is built for a template, its
\* constraints are updated, and slides are assessed
\* ------------------------------------------------------------------------
\* constraints of the templates explored
MapperTemplates ==
    TemplateConstraints
    \cup {[min_bullets |-> 0, max_bullets |-> 1, bullet_max_length |-> 2,
           title_max_length |-> 10, subtitle_max_length |-> 10],
          [bullet_max_length |-> 0, title_max_length |-> 0],
          [bullets_per_slide |-> <<2, 4>>]}

\* the slides explored: SlideOutline objects as pydantic lets them be built,
\* and slides whose title was assigned afterwards (assignment is not
\* validated), empty or blank
MapperBullets(n, len, blank_at) ==
    [k \in 1..n |-> IF k = blank_at THEN BlankT(1) ELSE T("bullet", 0, k, len)]

MapperSlides ==
    {[slide_number |-> 1, slide_type |-> ty, title |-> ti, subtitle |-> su,
      bullet_points |-> MapperBullets(n, len, blank_at)] :
        ty \in SlideType,
        ti \in {T("title", 0, 0, 20), T("title", 1, 0, TITLE_MAX),
                EmptyT, BlankT(2)},
        su \in {NoneT, T("subtitle", 0, 0, SUBTITLE_MAX)},
        n \in 0..MaxMapBullets,
        len \in {2, 30, BULLET_MAX},
        blank_at \in {0, 1}}

\* ContentMapper(template_constraints)
InitMapper ==
    /\ GenParked
    /\ content_generator = "ContentGenerator"
    /\ max_regen_attempts = 1
    /\ \E tc \in MapperTemplates :
          /\ constraints = MapperConstraints(tc)
          /\ m_incoming = ConstructorIncoming(tc)
    /\ o_pc = "idle"
    /\ o_topic = NoneT /\ o_num_slides = 0
    /\ o_attempt = 0 /\ o_feedback = NoFeedback
    /\ o_outline = NoOutline /\ o_result = NoRun
    /\ generate_steps = 0 /\ generator_calls = 0
    /\ assessed = 0 /\ flagged = 0 /\ rendered = <<>>
    /\ generated = <<>> /\ last_issues = <<>>
    /\ MapperCallsParked

\* mapper.update_constraints(incoming)
MapperUpdateConstraints ==
    /\ m_result = NoAssessment
    /\ \E incoming \in MapperTemplates :
          /\ constraints' = UpdateConstraints(constraints, incoming)
          /\ m_incoming' = incoming
    /\ UNCHANGED <<vars, callOwn, parseVars, jsonVars, content_generator, max_regen_attempts,
                   o_pc, o_topic, o_num_slides, o_attempt, o_feedback,
                   o_outline, o_result, generate_steps, generator_calls,
                   assessed, flagged, rendered, orchLog>>

\* mapper.assess_slide(slide)
MapperAssessSlide ==
    /\ m_result = NoAssessment
    /\ tr_result = NoTruncation
    /\ \E slide \in MapperSlides :
          /\ m_arg' = slide
          /\ m_slide' = InputAfterAssess(slide, constraints)
          /\ m_result' = AssessSlide(slide, constraints)
    /\ UNCHANGED <<vars, m_prev, truncVars, parseVars, jsonVars, m_incoming, content_generator, max_regen_attempts, constraints,
                   o_pc, o_topic, o_num_slides, o_attempt, o_feedback,
                   o_outline, o_result, generate_steps, generator_calls,
                   assessed, flagged, rendered, orchLog>>

\* mapper.assess_slide(normalized), on the slide the last call returned
MapperAssessAgain ==
    /\ m_result # NoAssessment
    /\ m_arg' = m_result.slide
    /\ m_slide' = InputAfterAssess(m_result.slide, constraints)
    /\ m_result' = AssessSlide(m_result.slide, constraints)
    /\ m_prev' = m_result
    /\ UNCHANGED <<vars, truncVars, parseVars, jsonVars, m_incoming, content_generator, max_regen_attempts,
                   constraints,
                   o_pc, o_topic, o_num_slides, o_attempt, o_feedback,
                   o_outline, o_result, generate_steps, generator_calls,
                   assessed, flagged, rendered, orchLog>>

\* the caller has the triple; the mapper can be called again
MapperReturned ==
    /\ m_result # NoAssessment
    /\ m_slide' = NoSlide /\ m_result' = NoAssessment
    /\ m_arg' = NoSlide /\ m_prev' = NoAssessment
    /\ UNCHANGED <<vars, truncVars, parseVars, jsonVars, m_incoming, content_generator, max_regen_attempts, constraints,
                   o_pc, o_topic, o_num_slides, o_attempt, o_feedback,
                   o_outline, o_result, generate_steps, generator_calls,
                   assessed, flagged, rendered, orchLog>>

MapperNext ==
    \/ MapperUpdateConstraints
    \/ MapperAssessSlide
    \/ MapperAssessAgain
    \/ MapperReturned

SpecMapper == InitMapper /\ [][MapperNext]_allVars

\* ------------------------------------------------------------------------
\* ContentMapper._truncate called on its own, next to assess_slide
\* ------------------------------------------------------------------------
\* the texts explored: every str of at most MaxTextLen characters over
\* Chars with at most MaxSpaces spaces, wherever they are
TruncateTexts ==
    {[i \in 1..n |-> IF i \in at THEN " " ELSE "x"] :
        n \in 0..MaxTextLen,
        at \in {X \in SUBSET (1..MaxTextLen) : Cardinality(X) <= MaxSpaces}}

\* the budgets explored
TruncateBudgets == -1..(MaxTextLen + 1)

\* mapper._truncate(text, max_length)
MapperTruncate ==
    /\ tr_result = NoTruncation
    /\ m_result = NoAssessment
    /\ \E text \in TruncateTexts, max_length \in TruncateBudgets :
          /\ tr_text' = text
          /\ tr_max_length' = max_length
          /\ tr_result' = TruncateChars(text, max_length)
    /\ UNCHANGED <<vars, m_slide, m_result, m_arg, m_prev, parseVars, jsonVars, m_incoming, content_generator,
                   max_regen_attempts, constraints,
                   o_pc, o_topic, o_num_slides, o_attempt, o_feedback,
                   o_outline, o_result, generate_steps, generator_calls,
                   assessed, flagged, rendered, orchLog>>

\* the caller has the str; _truncate can be called again
TruncateReturned ==
    /\ tr_result # NoTruncation
    /\ tr_text' = <<>> /\ tr_max_length' = 0 /\ tr_result' = NoTruncation
    /\ UNCHANGED <<vars, m_slide, m_result, m_arg, m_prev, parseVars, jsonVars, m_incoming, content_generator,
                   max_regen_attempts, constraints,
                   o_pc, o_topic, o_num_slides, o_attempt, o_feedback,
                   o_outline, o_result, generate_steps, generator_calls,
                   assessed, flagged, rendered, orchLog>>

TruncateNext ==
    \/ MapperTruncate
    \/ TruncateReturned
    \/ MapperAssessSlide
    \/ MapperReturned

SpecTruncate == InitMapper /\ [][TruncateNext]_allVars

\* ------------------------------------------------------------------------
\* The synthetic outline on its own: processes started with
\* DOCGEN_FORCE_FALLBACK=1, with or without DOCGEN_DETERMINISTIC_FALLBACK=1
\* ------------------------------------------------------------------------
InitFallback ==
    /\ OrchParked
    /\ max_retries = 1
    /\ groq_key = FALSE /\ gemini_key = FALSE /\ openai_key = FALSE
    /\ model = NormalizeModelName("", FALSE)
    /\ force_fallback = TRUE
    /\ deterministic_fallback \in BOOLEAN
    /\ hash_salt \in Seeds
    /\ det_first = NoGeneration
    /\ pc = "idle"
    /\ topic = NoneT /\ num_slides = 0 /\ audience = NoneT
    /\ attempt = 0
    /\ best_outline = NoOutline /\ best_issue_count = BEST_INIT
    /\ feedback = "None"
    /\ chain = <<>> /\ ci = 0
    /\ result = NoResult
    /\ ncalls = 0 /\ chain0 = 0
    /\ last_success = "none" /\ best_attempt = 0
    /\ min_issues = -1 /\ min_attempt = 0 /\ min_outline = NoOutline
    /\ ok_attempt = 0
    /\ tried = <<>> /\ api_error = NoError

\* the program is run again, in a new interpreter process with the same
\* environment: ContentGenerator() is built anew (under forced fallback
\* no call has changed self.model) and hash() of a str has a new key
ProcessRestart ==
    /\ pc = "idle"
    /\ force_fallback
    /\ hash_salt' \in Seeds
    /\ UNCHANGED <<cfgVars, model, callVars, logVars, apiVars, det_first>>
    /\ UNCHANGED orchVars

FallbackNext ==
    \/ GenCall
    \/ Returned
    \/ ProcessRestart

SpecFallback == InitFallback /\ [][FallbackNext]_allVars

\* ------------------------------------------------------------------------
\* Lines 127-130 of the attempt on their own: _parse_outline_response,
\* _normalize_outline and _validate_outline run on the data of a response
\* ------------------------------------------------------------------------
ParseKinds ==
    EntryKinds \cup {"untyped", "two_col", "closing_mid", "long_sub",
                     "long_bullet", "many", "blank_bullets", "filler"}

ParseEntry(i, kind) ==
    IF kind \in EntryKinds THEN EntryOfKind(i, kind)
    ELSE CASE kind = "untyped" ->
                [GoodEntry(i) EXCEPT !.slide_type = "missing"]
           [] kind = "two_col" ->
                [GoodEntry(i) EXCEPT !.slide_type = "two_column"]
           [] kind = "closing_mid" ->
                [GoodEntry(i) EXCEPT !.slide_type = "closing_slide"]
           [] kind = "long_sub" ->
                [GoodEntry(i) EXCEPT
                    !.subtitle = T("subtitle", i, 0, SUBTITLE_MAX + 1)]
           [] kind = "long_bullet" ->
                [GoodEntry(i) EXCEPT
                    !.bullet_points[1] = T("bullet", i, 1, BULLET_MAX + 1)]
           [] kind = "many" ->
                [GoodEntry(i) EXCEPT
                    !.bullet_points =
                        [k \in 1..(CONTENT_MAX_BULLETS + 2) |-> T("bullet", i, k, 30)]]
           [] kind = "blank_bullets" ->
                [GoodEntry(i) EXCEPT
                    !.bullet_points = <<BlankT(2), T("bullet", i, 2, 30), BlankT(3)>>]
           [] kind = "filler" ->
                [GoodEntry(i) EXCEPT
                    !.bullet_points[2] = T("lorem ipsum", i, 2, 30)]

ParseDeck(n, pos, kind) ==
    [i \in 1..n |-> IF i = pos THEN ParseEntry(i, kind) ELSE GoodEntry(i)]

\* the data explored: decks of 1..MaxRespSlides entries with at most one
\* entry that is not well formed, at any position, and the data of the
\* responses of the attempt loop
ParseData ==
    {JsonObject(ParseDeck(n, pos, kind)) :
        n \in 1..MaxRespSlides, pos \in 0..MaxRespSlides, kind \in ParseKinds}
    \cup {r.data : r \in {x \in Responses : x.kind = "json"}}

\* expected_slides is the clamped num_slides
ParseExpected == MIN_SLIDES..MaxRespSlides

InitParse ==
    /\ GenParked
    /\ OrchParked

\* line 127: outline = self._parse_outline_response(data, expected_slides=n)
GenParse ==
    /\ p_stage = "idle"
    /\ \E data \in ParseData, n \in ParseExpected :
          /\ p_data' = data
          /\ p_expected' = n
          /\ IF ParseRaises(data)
               THEN p_stage' = "raised" /\ p_outline' = NoOutline
               ELSE p_stage' = "parsed" /\ p_outline' = ParseOutlineResponse(data)
    /\ UNCHANGED <<vars, orchOwn, mapperOwn, p_issues, jsonVars>>

\* line 128: outline = self._normalize_outline(outline, expected_slides=n)
GenNormalize ==
    /\ p_stage = "parsed"
    /\ p_outline' = NormalizeOutline(p_outline, p_expected)
    /\ p_stage' = "normalized"
    /\ UNCHANGED <<vars, orchOwn, mapperOwn, p_data, p_expected, p_issues, jsonVars>>

\* line 130: ok, issues = self._validate_outline(outline, expected_slides=n)
GenValidate ==
    /\ p_stage = "normalized"
    /\ p_issues' = ValidateOutline(p_outline, p_expected)
    /\ p_stage' = "validated"
    /\ UNCHANGED <<vars, orchOwn, mapperOwn, p_data, p_expected, p_outline, jsonVars>>

\* the lines are done (or the except clause has caught the error)
GenParseReturned ==
    /\ p_stage \in {"raised", "validated"}
    /\ p_data' = NoData /\ p_expected' = 0 /\ p_stage' = "idle"
    /\ p_outline' = NoOutline /\ p_issues' = <<>>
    /\ UNCHANGED <<vars, orchOwn, mapperOwn, jsonVars>>

ParseNext ==
    \/ GenParse
    \/ GenNormalize
    \/ GenValidate
    \/ GenParseReturned

SpecParse == InitParse /\ [][ParseNext]_allVars

\* ------------------------------------------------------------------------
\* Line 125 of the attempt on its own: _safe_parse_json on a response text
\* ------------------------------------------------------------------------
\* the texts explored: None, and every text of at most MaxJsonLen lexemes
JsonTexts == UNION {[1..n -> JsonChars] : n \in 0..MaxJsonLen} \cup {NoneRaw}

\* line 125: data = self._safe_parse_json(raw)
GenSafeParseJson ==
    /\ j_result = NoJson
    /\ \E raw \in JsonTexts :
          /\ j_raw' = raw
          /\ j_result' = SafeParseJsonChars(raw)
    /\ UNCHANGED <<vars, orchOwn, mapperOwn, parseVars>>

\* the attempt has the data (or its except clause has the error)
JsonReturned ==
    /\ j_result # NoJson
    /\ j_raw' = <<>> /\ j_result' = NoJson
    /\ UNCHANGED <<vars, orchOwn, mapperOwn, parseVars>>

JsonNext ==
    \/ GenSafeParseJson
    \/ JsonReturned

SpecJson == InitParse /\ [][JsonNext]_allVars

\* ------------------------------------------------------------------------
\* Properties of generate_presentation_outline
\* ------------------------------------------------------------------------
\* the call went through the attempt loop
InLoopCall == chain0 > 0

\* C1: generate_presentation_outline never raises: whatever the topic,
\* num_slides, audience and the behaviour of the model chain, a finished call
\* has returned a PresentationOutline
C1_NeverRaises ==
    pc = "done" => result.kind = "outline"

\* C4: every outline returned has a first slide of type title_slide and a
\* last slide of type closing_slide
C4_FirstTitleLastClosing ==
    (pc = "done" /\ result.kind = "outline") =>
        /\ Len(result.outline.slides) >= 1
        /\ result.outline.slides[1].slide_type = "title_slide"
        /\ result.outline.slides[Len(result.outline.slides)].slide_type
              = "closing_slide"

\* C5: when no attempt validates with zero issues, the result is the outline
\* of the earliest attempt with the fewest issues among the attempts that
\* reached validation, and the fallback path is taken only if none did
C5_LeastBadAttempt ==
    (pc = "done" /\ InLoopCall /\ ok_attempt = 0) =>
        /\ min_attempt # 0 =>
              /\ result.kind = "outline"
              /\ result.via \in {"best", "best_effort"}
              /\ result.outline = min_outline
              /\ Len(ValidateOutline(result.outline, num_slides)) = min_issues
              /\ best_attempt = min_attempt
        /\ result.via = "fallback" => min_attempt = 0

\* C5 happens: the least-bad outline came from the second of three attempts
C5_Witness ==
    /\ pc = "done" /\ ok_attempt = 0
    /\ attempt = 3 /\ min_attempt = 2
    /\ result.outline = min_outline

\* C6 as stated: if every attempt raised or gave an outline with two or more
\* issues, the call returns the synthetic fallback outline
C6_FallbackUnlessNearValid ==
    (pc = "done" /\ InLoopCall /\ ok_attempt = 0
        /\ (min_attempt = 0 \/ min_issues >= 2)) =>
        result.via = "fallback"

\* C6, amended: the fallback path is taken exactly when every attempt
\* raised; an attempt that reached validation is returned as the best
\* effort, with two or more issues too
C6_FallbackOnlyIfAllRaised ==
    (pc = "done" /\ InLoopCall /\ ok_attempt = 0) =>
        /\ min_attempt = 0 => result.via = "fallback"
        /\ min_attempt # 0 =>
              /\ result.kind = "outline"
              /\ result.via \in {"best", "best_effort"}
              /\ result.via = "best_effort" => min_issues <= GOOD_ENOUGH

\* C6 happens: every attempt of a call of several attempts raised
C6_Witness ==
    /\ pc = "done" /\ InLoopCall
    /\ attempt >= 2 /\ min_attempt = 0 /\ ok_attempt = 0
    /\ result.via = "fallback"

\* C7: an outline that validates with zero issues at attempt k is returned
\* at once: the call is over at attempt k, and the result is that outline
\* and not the best effort of an earlier attempt
C7_ValidReturnsAtOnce ==
    ok_attempt # 0 =>
        /\ pc = "done"
        /\ attempt = ok_attempt
        /\ result.kind = "outline" /\ result.via = "valid"
        /\ ValidateOutline(result.outline, num_slides) = <<>>
        /\ result.outline # best_outline

\* C7 happens: attempt 2 validates after attempt 1 left a best effort
C7_Witness ==
    /\ ok_attempt = 2
    /\ best_outline # NoOutline
    /\ attempt < max_retries

\* C8: a call that enters the loop makes between 1 and max_retries attempts,
\* each walks the candidate chain at most once, and the completion calls
\* number at most max_retries times the chain length
C8_BoundedAttempts ==
    /\ max_retries >= 1
    /\ attempt <= max_retries
    /\ InLoopCall => attempt >= 1
    /\ pc \in {"call", "process"} => (ci >= 1 /\ ci <= Len(chain))
    /\ Len(chain) <= chain0
    /\ ncalls <= attempt * chain0
    /\ ncalls <= max_retries * chain0

\* C8 happens: every attempt walked a chain of several candidates to its end
C8_Witness ==
    /\ pc = "done"
    /\ max_retries >= 2 /\ attempt = max_retries
    /\ chain0 >= 2
    /\ ncalls = max_retries * chain0

\* C9: an attempt that raises (in the model call, the JSON parsing or the
\* conversion) leaves the best effort and its issue count as they are, sets
\* the generic feedback, and goes to the next attempt if one remains; at the
\* last attempt the call ends with the statements after the loop
C9_RaisedAttemptContinues ==
    [][(CallRaises \/ ResponseRaises) =>
          /\ best_outline' = best_outline
          /\ best_issue_count' = best_issue_count
          /\ feedback' = "invalid_or_unparsable"
          /\ attempt < max_retries =>
                (pc' = "call" /\ attempt' = attempt + 1 /\ ci' = 1)
          /\ attempt = max_retries =>
                /\ pc' = "done"
                /\ result'.via = (IF best_outline # NoOutline
                                    THEN "best" ELSE "fallback")]_vars

\* C9 happens: an attempt raised after an earlier one left a best effort,
\* and the loop went on
C9_Witness ==
    /\ pc = "call" /\ attempt = 3
    /\ feedback = "invalid_or_unparsable"
    /\ best_outline # NoOutline

\* C10 as stated: once a call succeeded via candidate c, every later model
\* call of the instance tries c first
C10_LockedModelTriedFirst ==
    (pc = "call" /\ last_success # "none") => chain[1] = last_success

\* C10, amended: when a call succeeds via c the recorded default model is c,
\* every model call tries the recorded default first, and the default stays
\* c unless the escalation step replaced the 8B model by the 70B model
C10_DefaultTriedFirst ==
    /\ pc = "process" => model = last_success
    /\ pc = "call" => chain[1] = model
    /\ last_success # "none" =>
          \/ model = last_success
          \/ (groq_key /\ last_success = GROQ_8B /\ model = GROQ_70B)

\* C10 happens: the primary was rejected, the secondary succeeded, and the
\* next attempt starts from the secondary
C10_Witness ==
    /\ pc = "call" /\ attempt >= 2 /\ ci = 1
    /\ chain[1] = last_success
    /\ Len(chain) < chain0

\* C14: on every path of generate_presentation_outline (model, forced
\* fallback, empty topic) the slide count is max(3, min(num_slides, 20)): no
\* outline returned has more than 20 slides, and a synthetic outline has
\* the clamped count
C14_SlideCountClamped ==
    (pc = "done" /\ result.kind = "outline") =>
        /\ Len(result.outline.slides) <= MAX_SLIDES
        /\ result.via = "fallback" =>
              Len(result.outline.slides)
                 = Max(MIN_SLIDES, Min(num_slides, MAX_SLIDES))

\* C18: a call with a topic and num_slides = n in 3..20 returns an outline
\* of exactly n slides, whatever the model chain answers (fewer or more
\* slides than n included)
C18_ExactSlideCount ==
    (pc = "done" /\ InLoopCall /\ result.kind = "outline") =>
        Len(result.outline.slides) = num_slides

\* C19: the topic field of the outline returned is the non-empty, trimmed
\* topic the caller passed, whatever topic the JSON of the model holds or
\* leaves out
C19_TopicIsCallersTopic ==
    (pc = "done" /\ InLoopCall /\ result.kind = "outline") =>
        result.outline.topic = topic

\* ------------------------------------------------------------------------
\* Properties of the synthetic outline
\* ------------------------------------------------------------------------
\* a forced-fallback generation (line 110) has ended
ForcedFallbackDone ==
    /\ pc = "done" /\ force_fallback
    /\ topic # T("Untitled Topic", 0, 0, 14)

\* C15: a forced-fallback generation with num_slides = N in 3..20 gives
\* exactly N slides: slide 1 a title_slide, slides 2..N-1 content_slide,
\* slide N a closing_slide
C15_ForcedFallbackShape ==
    ForcedFallbackDone =>
        /\ result.kind = "outline"
        /\ num_slides \in MIN_SLIDES..MAX_SLIDES
        /\ Len(result.outline.slides) = num_slides
        /\ \A i \in 1..Len(result.outline.slides) :
              result.outline.slides[i].slide_type
                 = (IF i = 1 THEN "title_slide"
                    ELSE IF i = num_slides THEN "closing_slide"
                    ELSE "content_slide")

\* C16: the outline of a forced-fallback generation with num_slides = N in
\* 3..20, for every topic, has total_slides = N, pairwise distinct slide
\* titles, no bullets on slide 1 and 3 to 10 bullets on each of slides
\* 2..N-1
C16_ForcedFallbackOutline ==
    (ForcedFallbackDone /\ result.kind = "outline") =>
        LET slides == result.outline.slides
        IN /\ result.outline.total_slides = num_slides
           /\ \A i, j \in 1..Len(slides) :
                 i # j => slides[i].title # slides[j].title
           /\ slides[1].bullet_points = <<>>
           /\ \A i \in 2..(num_slides - 1) :
                 /\ Len(slides[i].bullet_points) >= CONTENT_MIN_BULLETS
                 /\ Len(slides[i].bullet_points) <= CONTENT_MAX_BULLETS

\* C17: with deterministic fallback enabled, two generations of the
\* synthetic outline with the same topic, audience, tone and num_slides
\* return the same outline, whenever they are made
C17_DeterministicFallbackRepeats ==
    (/\ pc = "done" /\ deterministic_fallback
     /\ result.kind = "outline" /\ result.via = "fallback"
     /\ det_first.args = <<topic, num_slides, audience>>) =>
        result.outline = det_first.outline

\* ------------------------------------------------------------------------
\* Properties of _call_api
\* ------------------------------------------------------------------------
\* the last completion call of a list of calls
LastCall(calls) == calls[Len(calls)]

\* no model occurs twice in the sequence
Distinct(seq) == \A i, j \in 1..Len(seq) : i # j => seq[i] # seq[j]

\* the calls made are the candidates of the chain, in the order of the chain
WalksChain(calls, candidates) ==
    /\ Len(calls) <= Len(candidates)
    /\ \A i \in 1..Len(calls) : calls[i].model = candidates[i]

\* C11: within one invocation of _call_api a candidate whose call is
\* rejected (model decommissioned or invalid) is not called again, the next
\* candidate of the chain is called after it, and the invocation raises on a
\* rejection only when the rejected candidate is the last of the chain; the
\* outer loop then takes the attempt as failed
C11_RejectedCandidateSkipped ==
    /\ pc \in {"call", "process"} =>
          /\ Distinct(chain)
          /\ WalksChain(tried, chain)
          /\ pc = "call" => ci = Len(tried) + 1
          /\ \A i \in 1..Len(tried) :
                tried[i].outcome = "rejected" => i < Len(chain)
    /\ api_error # NoError =>
          /\ Distinct(api_error.chain)
          /\ WalksChain(api_error.tried, api_error.chain)
          /\ LastCall(api_error.tried).outcome = "rejected" =>
                Len(api_error.tried) = Len(api_error.chain)
          /\ feedback = "invalid_or_unparsable"
          /\ pc \in {"call", "done"}

\* C11 happens: every candidate of a chain of several was rejected, and the
\* invocation raised the error of the last one
C11_Witness ==
    /\ api_error # NoError
    /\ Len(api_error.chain) >= 2
    /\ Len(api_error.tried) = Len(api_error.chain)
    /\ \A i \in 1..Len(api_error.tried) : api_error.tried[i].outcome = "rejected"
    /\ feedback = "invalid_or_unparsable"

\* a rate-limit/overload error, or an error _call_api has no rule for
Propagated(call) == call.outcome \in {"rate_limited", "other"}

\* C12: a rate-limit/overload error, or an error that is neither a rejection
\* nor an unreachable local endpoint, makes _call_api raise at once: no
\* candidate is called after it in the invocation, the default model is the
\* one the invocation started with, and the next attempt of the outer loop
\* starts with that model
C12_PropagatedErrorRaisesAtOnce ==
    /\ \A i \in 1..Len(tried) : ~Propagated(tried[i])
    /\ (api_error # NoError /\ Propagated(LastCall(api_error.tried))) =>
          /\ \A i \in 1..(Len(api_error.tried) - 1) :
                ~Propagated(api_error.tried[i])
          /\ api_error.default = api_error.chain[1]
          /\ model = api_error.chain[1]
          /\ pc = "call" =>
                (ci = 1 /\ tried = <<>> /\ chain[1] = api_error.chain[1])

\* C12 happens: the first candidate was rate limited while others remained,
\* and the next attempt starts
C12_Witness ==
    /\ pc = "call" /\ attempt >= 2
    /\ api_error # NoError
    /\ LastCall(api_error.tried).outcome = "rate_limited"
    /\ Len(api_error.tried) < Len(api_error.chain)
    /\ chain[1] = api_error.chain[1]

\* the place of a model's provider in the order Groq, Gemini, OpenAI
ProviderRank(m) ==
    CASE ProviderOf(m) = "groq" -> 1
      [] ProviderOf(m) = "gemini" -> 2
      [] ProviderOf(m) = "openai" -> 3
      [] OTHER -> 0

\* the credential of the model's provider is present
HasCredential(m) ==
    \/ ProviderOf(m) = "groq" /\ groq_key
    \/ ProviderOf(m) = "gemini" /\ gemini_key
    \/ ProviderOf(m) = "openai" /\ openai_key

\* C13: an invocation of _call_api tries the current default model first,
\* then the other candidates in the order Groq, Gemini, OpenAI, only those
\* of providers whose credential is present, each model at most once, and
\* stops at the first success
C13_DefaultThenProviderOrder ==
    pc \in {"call", "process"} =>
        /\ pc = "call" => chain[1] = model
        /\ \A i \in 2..Len(chain) : HasCredential(chain[i])
        /\ \A i, j \in 2..Len(chain) :
              i < j => ProviderRank(chain[i]) <= ProviderRank(chain[j])
        /\ groq_key => \E i \in 1..Len(chain) : ProviderOf(chain[i]) = "groq"
        /\ gemini_key => \E i \in 1..Len(chain) : ProviderOf(chain[i]) = "gemini"
        /\ openai_key => \E i \in 1..Len(chain) : ProviderOf(chain[i]) = "openai"
        /\ Distinct(chain)
        /\ WalksChain(tried, chain)
        /\ Len(tried) = (IF pc = "call" THEN ci - 1 ELSE ci)
        /\ \A i \in 1..Len(tried) :
              tried[i].outcome = "ok" <=> (pc = "process" /\ i = Len(tried))

\* C13 happens: the default and a second candidate failed, and the third
\* candidate of the chain answered
C13_Witness ==
    /\ pc = "process"
    /\ Len(chain) >= 3 /\ ci = 3
    /\ Len(tried) = 3 /\ tried[3].outcome = "ok"
    /\ tried[1].model = chain[1]

\* ------------------------------------------------------------------------
\* Properties of PresentationOrchestrator.generate
\* ------------------------------------------------------------------------
\* every attempt assessed so far was flagged needs_regeneration
AllFlagged == assessed >= 1 /\ flagged = assessed

\* C2: generate raises no error that comes from its generate/assess/
\* regenerate loop: whatever outlines the generator returned and however
\* they were assessed, an error the caller sees comes from template
\* loading, rendering or saving
C2_OnlyCollaboratorErrors ==
    (o_result.kind = "raised" /\ o_result.origin # "generator") =>
        o_result.origin \in {"template", "render", "save"}

\* C3: when every attempt is flagged, generate makes exactly
\* max_regen_attempts GENERATE steps, never more, then reaches DONE and hands
\* the normalized slides of the last attempt to rendering; the generator is
\* invoked between 1 and max_regen_attempts times in a run that got past
\* template loading
C3_ExhaustedAttemptsReachDone ==
    /\ generate_steps <= max_regen_attempts
    /\ (o_pc = "returned" /\ AllFlagged) =>
          /\ generate_steps = max_regen_attempts
          /\ o_result.origin \in {"save", "render"}
          /\ rendered = o_outline.slides
    /\ (o_pc = "returned" /\ o_result.origin # "template") =>
          (generator_calls >= 1 /\ generator_calls <= max_regen_attempts)

\* ------------------------------------------------------------------------
\* Properties of ContentMapper.assess_slide
\* ------------------------------------------------------------------------
\* assess_slide has returned for a content_slide or a two_column slide
AssessedContentSlide ==
    /\ m_result # NoAssessment
    /\ m_slide.slide_type \in {"content_slide", "two_column"}

\* the slide returned keeps to max_bullets and bullet_max_length
WithinUpperBounds(slide, c) ==
    /\ Len(slide.bullet_points) <= c["max_bullets"]
    /\ \A k \in 1..Len(slide.bullet_points) :
          slide.bullet_points[k].len <= c["bullet_max_length"]

\* C20 as stated: for a content_slide or two_column slide and every
\* constraint set, the slide assess_slide returns has between min_bullets
\* and max_bullets bullets, each of at most bullet_max_length characters
C20_BulletBoundsAfterAssess ==
    AssessedContentSlide =>
        /\ Len(m_result.slide.bullet_points) >= constraints["min_bullets"]
        /\ WithinUpperBounds(m_result.slide, constraints)

\* C20, amended: the slide returned has at most max_bullets bullets, each
\* of at most bullet_max_length characters; no bullet is added, so a slide
\* with fewer than min_bullets bullets keeps that number, and it is reported
\* (missing_bullets or too_few_bullets) with needs_regen set
C20_BulletsCappedShortFlagged ==
    AssessedContentSlide =>
        /\ WithinUpperBounds(m_result.slide, constraints)
        /\ Len(m_result.slide.bullet_points) <= Len(m_slide.bullet_points)
        /\ Len(m_result.slide.bullet_points) < constraints["min_bullets"] =>
              /\ m_result.needs_regen
              /\ \E k \in 1..Len(m_result.issues) :
                    m_result.issues[k].code
                       = (IF m_result.slide.bullet_points = <<>>
                            THEN "missing_bullets" ELSE "too_few_bullets")

\* C20 happens: a two_column slide with more bullets than max_bullets, each
\* longer than bullet_max_length, was capped and truncated
C20_Witness ==
    /\ m_result # NoAssessment
    /\ m_slide.slide_type = "two_column"
    /\ Len(m_slide.bullet_points) > constraints["max_bullets"]
    /\ Len(m_result.slide.bullet_points) = constraints["max_bullets"]
    /\ constraints["max_bullets"] >= 1
    /\ \A k \in 1..Len(m_slide.bullet_points) :
          m_slide.bullet_points[k].len > constraints["bullet_max_length"]

\* ------------------------------------------------------------------------
\* Properties of ContentMapper._truncate
\* ------------------------------------------------------------------------
\* _truncate has returned
Truncated == tr_result # NoTruncation

\* the text record of _truncate's result, as MapTruncate gives it, is at
\* least as long as the str the code returns
RecordCoversChars ==
    (Truncated /\ tr_max_length >= 0) =>
        Len(tr_result) <= MapTruncate(TextOf(tr_text), tr_max_length).len

\* C21: for every text and every max_length >= 0, _truncate returns a str of
\* at most max_length characters; so the slide assess_slide returns has a
\* title of at most title_max_length characters and a subtitle of at most
\* subtitle_max_length characters
C21_TruncationWithinBudget ==
    /\ (Truncated /\ tr_max_length >= 0) => Len(tr_result) <= tr_max_length
    /\ RecordCoversChars
    /\ (m_result # NoAssessment /\ constraints["title_max_length"] >= 0
           /\ constraints["subtitle_max_length"] >= 0) =>
          /\ m_result.slide.title.len <= constraints["title_max_length"]
          /\ m_result.slide.subtitle.len <= constraints["subtitle_max_length"]

\* C21 happens: a text longer than the budget was cut back at a word
\* boundary, and the result is shorter than the budget
C21_Witness ==
    /\ Truncated
    /\ tr_max_length >= 4
    /\ Len(StripChars(tr_text)) > tr_max_length
    /\ RFindSpace(PyPrefix(StripChars(tr_text), tr_max_length - Len(Ellipsis)))
          > FourFifths(tr_max_length - Len(Ellipsis))
    /\ Len(tr_result) < tr_max_length
    /\ Len(tr_result) > Len(Ellipsis)

\* ------------------------------------------------------------------------
\* Properties of assess_slide applied to its own result
\* ------------------------------------------------------------------------
\* assess_slide has returned for the slide its last call returned
AssessedAgain == m_prev # NoAssessment

\* the issues normalization does not repair: all but too_many_bullets
IsStanding(issue) == issue.code # "too_many_bullets"

\* C22 as stated: assess_slide applied to the slide assess_slide returned
\* gives the same slide again, together with an empty issue list
C22_ReassessSameSlideNoIssues ==
    AssessedAgain =>
        /\ m_result.slide = m_prev.slide
        /\ m_result.issues = <<>>

\* C22, amended: with bullet_max_length >= 1, assess_slide applied to the
\* slide it returned gives the same slide again; the issue list is that of
\* the first call without its too_many_bullets issue, and needs_regen is as
\* in the first call
C22_ReassessSameSlideStandingIssues ==
    (AssessedAgain /\ constraints["bullet_max_length"] >= 1) =>
        /\ m_result.slide = m_prev.slide
        /\ m_result.issues = SelectSeq(m_prev.issues, IsStanding)
        /\ m_result.needs_regen = m_prev.needs_regen

\* C22 happens: a slide that was capped and is still short of min_bullets
\* was assessed again
C22_Witness ==
    /\ AssessedAgain
    /\ constraints["bullet_max_length"] >= 1
    /\ \E k \in 1..Len(m_prev.issues) : ~IsStanding(m_prev.issues[k])
    /\ m_result.issues # <<>>
    /\ m_result.slide = m_slide

\* C23: for every slide of type title_slide, whatever bullets the input
\* carries, the slide assess_slide returns has an empty bullet_points list
C23_TitleSlideHasNoBullets ==
    (m_result # NoAssessment /\ m_slide.slide_type = "title_slide") =>
        m_result.slide.bullet_points = <<>>

\* ------------------------------------------------------------------------
\* Properties of the issues assess_slide reports
\* ------------------------------------------------------------------------
\* the call reported an issue of this severity and code
Reported(severity, code) ==
    \E k \in 1..Len(m_result.issues) :
        /\ m_result.issues[k].severity = severity
        /\ m_result.issues[k].code = code

\* the codes of the issues that ask for regeneration
RegenCodes ==
    {"empty_title", "missing_bullets", "too_few_bullets", "closing_no_bullets"}

\* the number of non-blank bullets of the slide passed in
NonBlankIn == Len(SelectSeq(m_slide.bullet_points, LAMBDA b : Truthy(Strip(b))))

\* C24: an empty or whitespace-only title gives a hard empty_title issue; a
\* content_slide or two_column with zero bullets a hard missing_bullets
\* issue, with 1..min_bullets-1 bullets a soft too_few_bullets issue; a
\* closing_slide with zero bullets a soft closing_no_bullets issue; and
\* needs_regen is true exactly when one of these four issues was reported.
\* The bullets counted are those of the slide returned: the non-blank
\* bullets passed in, at most max_bullets of them
C24_IssueClassification ==
    m_result # NoAssessment =>
        LET n == Len(m_result.slide.bullet_points)
            is_content == m_slide.slide_type \in {"content_slide", "two_column"}
            is_closing == m_slide.slide_type = "closing_slide"
        IN /\ n = Min(NonBlankIn, Max(0, constraints["max_bullets"]))
           /\ ~Truthy(Strip(m_slide.title)) => Reported("hard", "empty_title")
           /\ (is_content /\ n = 0) => Reported("hard", "missing_bullets")
           /\ (is_content /\ n >= 1 /\ n < constraints["min_bullets"]) =>
                 Reported("soft", "too_few_bullets")
           /\ (is_closing /\ n = 0) => Reported("soft", "closing_no_bullets")
           /\ m_result.needs_regen
                 <=> \E k \in 1..Len(m_result.issues) :
                        m_result.issues[k].code \in RegenCodes
           /\ (\E k \in 1..Len(m_result.issues) :
                  m_result.issues[k].severity = "hard") => m_result.needs_regen

\* C24 happens: a content slide with a whitespace-only title and fewer than
\* min_bullets bullets was reported with a hard empty_title and a soft
\* too_few_bullets issue
C24_Witness ==
    /\ m_result # NoAssessment
    /\ Truthy(m_slide.title) /\ ~Truthy(Strip(m_slide.title))
    /\ m_slide.slide_type = "content_slide"
    /\ Reported("hard", "empty_title")
    /\ Reported("soft", "too_few_bullets")
    /\ m_result.needs_regen

\* the non-blank bullets of the slide passed in, stripped, in their order
NonBlankBullets ==
    SelectSeq([i \in 1..Len(m_slide.bullet_points) |->
                  Strip(m_slide.bullet_points[i])], Truthy)

\* the number of too_many_bullets issues reported
TooManyReports ==
    Len(SelectSeq(m_result.issues, LAMBDA i : i.code = "too_many_bullets"))

\* C25: for a slide with n non-blank bullets and max_bullets < n (max_bullets
\* a count, 0 or more), assess_slide returns exactly max_bullets bullets, the
\* first max_bullets non-blank bullets passed in, in their order, each
\* truncated to bullet_max_length, and exactly one soft too_many_bullets
\* issue; when n <= max_bullets no bullet is dropped and no too_many_bullets
\* issue is reported
C25_CapKeepsFirstBullets ==
    (m_result # NoAssessment /\ constraints["max_bullets"] >= 0) =>
        LET max_b == constraints["max_bullets"]
            n == Len(NonBlankBullets)
            kept == m_result.slide.bullet_points
        IN /\ Len(kept) = Min(n, max_b)
           /\ \A k \in 1..Len(kept) :
                 kept[k] = MapTruncate(NonBlankBullets[k],
                                       constraints["bullet_max_length"])
           /\ TooManyReports = (IF n > max_b THEN 1 ELSE 0)
           /\ n > max_b => Reported("soft", "too_many_bullets")

\* C25 happens: the case of the spec, seven bullets under max_bullets = 4
C25_Witness ==
    /\ m_result # NoAssessment
    /\ constraints["max_bullets"] = 4
    /\ Len(NonBlankBullets) = 7
    /\ Len(m_result.slide.bullet_points) = 4
    /\ m_result.slide.bullet_points[4].id = m_slide.bullet_points[4].id
    /\ TooManyReports = 1

\* ------------------------------------------------------------------------
\* Frame of assess_slide
\* ------------------------------------------------------------------------
\* a step in which assess_slide runs and returns
AssessStep ==
    /\ m_result' # NoAssessment
    /\ <<m_slide, m_result, m_arg, m_prev>>' # <<m_slide, m_result, m_arg, m_prev>>

\* the normalized slide differs from the slide passed in
CopyWasChanged == m_result.slide # m_arg

NormalizedGenerated == AssessOutline(generated, constraints).normalized_slides

\* the slide keeps to title_max_length, max_bullets and bullet_max_length
MapperNormalized(slide, c) ==
    /\ slide.title.len <= c["title_max_length"]
    /\ WithinUpperBounds(slide, c)

\* generate handed an outline to rendering
Rendering == o_pc = "returned" /\ o_result.origin \in {"save", "render"}

\* C27: in every iteration of the loop, flagged or not, the outline's slide
\* list is replaced by the slides assess_slide returned, one per generated
\* slide in the same order; the outline handed to rendering holds only
\* normalized slides: title within title_max_length, at most max_bullets
\* bullets, each within bullet_max_length
C27_NormalizedSlidesWrittenBack ==
    /\ (assessed >= 1 /\ o_pc \in {"GENERATE", "DONE"}) =>
          o_outline.slides = NormalizedGenerated
    /\ Rendering =>
          /\ rendered = NormalizedGenerated
          /\ Len(rendered) = Len(generated)
          /\ \A i \in 1..Len(rendered) : MapperNormalized(rendered[i], constraints)

\* C27 happens: the last attempt was flagged, and a slide of it went to
\* rendering with its title truncated and its bullets capped
C27_Witness ==
    /\ Rendering
    /\ flagged = assessed /\ assessed >= 2
    /\ \E i \in 1..Len(rendered) :
          /\ rendered[i].title.len < generated[i].title.len
          /\ Len(rendered[i].bullet_points) < Len(generated[i].bullet_points)

\* the last ASSESS step flagged no slide
LastUnflagged == flagged < assessed

\* C28: generate stops at the first attempt in which no slide is flagged: it
\* goes to DONE with that attempt's normalized outline and makes no further
\* GENERATE step, also when soft issues were recorded in that attempt
C28_StopsAtFirstUnflagged ==
    /\ flagged <= assessed
    /\ LastUnflagged =>
          /\ o_pc \in {"DONE", "returned"}
          /\ assessed = flagged + 1
          /\ generate_steps = assessed
          /\ generator_calls = assessed
          /\ o_outline.slides = NormalizedGenerated
          /\ o_pc = "returned" => (Rendering /\ rendered = o_outline.slides)

\* C28 happens: the second attempt had a capped slide and no flagged one,
\* and generate is at DONE
C28_Witness ==
    /\ o_pc = "DONE"
    /\ LastUnflagged
    /\ flagged >= 1
    /\ \E k \in 1..Len(last_issues) : last_issues[k].code = "too_many_bullets"

\* C29: the first GENERATE step of a request has no feedback; every later
\* one has the feedback text built from the issues of the ASSESS step just
\* before it
C29_FeedbackFromLastAssess ==
    o_pc = "GENERATE" =>
        /\ o_attempt = 1 => (o_feedback = NoFeedback /\ assessed = 0)
        /\ o_attempt > 1 =>
              /\ assessed = o_attempt - 1
              /\ o_feedback # NoFeedback
              /\ o_feedback = OrchFormatFeedback(last_issues)

\* C29 happens: the third GENERATE step of a request is due, after two
\* flagged attempts
C29_Witness ==
    /\ o_pc = "GENERATE"
    /\ o_attempt = 3
    /\ flagged = 2
    /\ Len(o_feedback) > 2

\* C30: total_slides equals len(slides) for every PresentationOutline the
\* orchestrator holds: as the generator returned it (built from the model's
\* JSON and normalized, extra slides cut off, or built by the synthetic
\* fallback) and after the slide list was replaced by the normalized slides
C30_TotalSlidesIsLength ==
    o_outline # NoOutline => o_outline.total_slides = Len(o_outline.slides)

\* C30 happens: the slide list of an outline of three or more slides was
\* replaced by slides that differ from the generated ones
C30_Witness ==
    /\ o_pc = "DONE"
    /\ o_outline.slides # generated
    /\ Len(generated) >= MIN_SLIDES
    /\ o_outline.total_slides = Len(generated)

\* ------------------------------------------------------------------------
\* Properties of the conversion of the model's JSON
\* ------------------------------------------------------------------------
\* C31: in every outline returned by generate_presentation_outline the
\* slide at position i (counting from 1) has slide_number i, on the model
\* path (responses with non-object entries or extra slides included) and
\* on the fallback paths
C31_SlideNumbersSequential ==
    (pc = "done" /\ result.kind = "outline") =>
        \A i \in 1..Len(result.outline.slides) :
            result.outline.slides[i].slide_number = i

\* the slide built from entry idx of the data, if one was built
SlideOfEntry(idx) ==
    {k \in 1..Len(p_outline.slides) : p_outline.slides[k].slide_number = idx}

\* the value under the key slide_type is one of the four enum values
HasEnumType(sd) == sd.slide_type \in SlideType

\* C32: in the conversion of the model's JSON an entry whose slide_type is
\* missing or not one of the four enum values becomes a content_slide, and
\* the first/last override comes after: every object entry yields one
\* slide, the first entry a title_slide, the last entry (if not the first)
\* a closing_slide, whatever their slide_type says, and an entry in between
\* keeps a valid type; data whose texts are within the limits of the
\* models is converted without raising, whatever the types say
C32_InvalidTypeCoercedThenOverridden ==
    /\ p_stage = "parsed" =>
          \A idx \in 1..Len(p_data.slides) :
              p_data.slides[idx].obj =>
                 /\ Cardinality(SlideOfEntry(idx)) = 1
                 /\ \A k \in SlideOfEntry(idx) :
                       p_outline.slides[k].slide_type =
                          IF idx = 1 THEN "title_slide"
                          ELSE IF idx = Len(p_data.slides) THEN "closing_slide"
                          ELSE IF HasEnumType(p_data.slides[idx])
                            THEN p_data.slides[idx].slide_type
                          ELSE "content_slide"
    /\ (/\ p_stage # "idle"
        /\ p_data.obj /\ p_data.slides_is_list /\ p_data.slides # <<>>
        /\ PresentationOutlineValid(OutlineTitleOf(p_data))
        /\ \A idx \in 1..Len(p_data.slides) :
              p_data.slides[idx].obj =>
                 SlideOutlineValid(idx, EntryTitle(p_data.slides[idx], idx),
                                   p_data.slides[idx].subtitle,
                                   p_data.slides[idx].bullet_points))
          => p_stage # "raised"

\* a deck whose last entry has the type "banana" was converted, and the
\* slide of that entry is the closing slide
C32_Witness ==
    /\ p_stage = "parsed"
    /\ Len(p_data.slides) >= MIN_SLIDES
    /\ p_data.slides[Len(p_data.slides)].obj
    /\ p_data.slides[Len(p_data.slides)].slide_type = "banana"
    /\ p_outline.slides[Len(p_outline.slides)].slide_type = "closing_slide"

\* some slide entry of the data carries a title, a subtitle or a bullet
\* over the limit of its field
HasOverLimitText(data) ==
    \E idx \in 1..Len(data.slides) :
        /\ data.slides[idx].obj
        /\ \/ data.slides[idx].title.len > TITLE_MAX
           \/ data.slides[idx].subtitle.len > SUBTITLE_MAX
           \/ \E k \in 1..Len(data.slides[idx].bullet_points) :
                 data.slides[idx].bullet_points[k].len > BULLET_MAX

\* C34: a response whose slides carry over-limit text (a title over 80
\* characters, a subtitle over 100, a bullet over 120) is normalized, not
\* rejected: the conversion of such data does not raise, and the outline
\* that reaches validation has the texts cut to the limits
C34_OverLimitTextNormalized ==
    (/\ p_stage # "idle"
     /\ p_data.obj /\ p_data.slides_is_list
     /\ HasOverLimitText(p_data))
       => /\ p_stage # "raised"
          /\ p_stage = "validated" =>
                \A k \in 1..Len(p_outline.slides) :
                    /\ p_outline.slides[k].title.len <= TITLE_MAX
                    /\ p_outline.slides[k].subtitle.len <= SUBTITLE_MAX
                    /\ \A b \in 1..Len(p_outline.slides[k].bullet_points) :
                          p_outline.slides[k].bullet_points[b].len <= BULLET_MAX

\* ------------------------------------------------------------------------
\* Properties of _normalize_outline followed by _validate_outline
\* ------------------------------------------------------------------------
\* the kinds of issue _validate_outline has reported
IssueKinds == {p_issues[k] : k \in 1..Len(p_issues)}

\* C38: after _normalize_outline, _validate_outline reports only four kinds
\* of issue: fewer slides than expected, titles that are not unique, too
\* few bullets on a content, two-column or closing slide, and three or more
\* duplicate bullets across the deck; it never reports more slides than
\* expected, too many bullets, a bullet over 120 characters, or a title
\* slide with bullets
C38_IssuesLeftAfterNormalize ==
    p_stage = "validated" =>
        /\ IssueKinds \subseteq {"slide_count", "titles_not_unique",
                                 "too_few_bullets", "repeated_bullets"}
        /\ "slide_count" \in IssueKinds =>
              Len(p_outline.slides) < p_expected
        /\ "too_few_bullets" \in IssueKinds =>
              \E k \in 1..Len(p_outline.slides) :
                  /\ p_outline.slides[k].slide_type
                        \in {"content_slide", "two_column", "closing_slide"}
                  /\ Len(p_outline.slides[k].bullet_points)
                        < Max(CONTENT_MIN_BULLETS, CLOSING_MIN_BULLETS)

\* a deck with more entries than expected, bullets on its first entry and
\* a short slide was normalized and validated, and an issue is reported
C38_Witness ==
    /\ p_stage = "validated"
    /\ Len(p_data.slides) > p_expected
    /\ p_data.slides[1].bullet_points # <<>>
    /\ p_issues # <<>>

\* ------------------------------------------------------------------------
\* Properties of update_constraints
\* ------------------------------------------------------------------------
\* the dict gives bullets_per_slide and neither min_bullets nor max_bullets
GivesBulletsPerSlideOnly(d) ==
    /\ "bullets_per_slide" \in DOMAIN d
    /\ "min_bullets" \notin DOMAIN d
    /\ "max_bullets" \notin DOMAIN d

\* C33: after any sequence of ContentMapper(...) and update_constraints
\* calls, if the dict of the most recent call gives bullets_per_slide as a
\* pair (a, b), or as a scalar n, and no explicit min_bullets or
\* max_bullets, the active min_bullets and max_bullets are a and b (n and n)
C33_BulletsPerSlideOverrides ==
    GivesBulletsPerSlideOnly(m_incoming) =>
        /\ constraints["min_bullets"] = m_incoming["bullets_per_slide"][1]
        /\ constraints["max_bullets"] =
              m_incoming["bullets_per_slide"][Len(m_incoming["bullets_per_slide"])]

\* ------------------------------------------------------------------------
\* Properties of PresentationOrchestrator._generate_outline
\* ------------------------------------------------------------------------
\* C35: with a generator that lacks one of the four primitives, every
\* GENERATE step, the steps after a flagged assessment included, calls
\* generate_presentation_outline, and the steps are bounded by
\* max_regen_attempts; with a generator that has the four, only the first
\* step calls generate_presentation_outline, and a step after a flagged
\* assessment goes through the primitives and returns an outline
C35_RegenPathByPrimitives ==
    /\ ~SupportsFeedbackRegen(content_generator) =>
          /\ generator_calls = generate_steps
          /\ generate_steps <= max_regen_attempts
    /\ SupportsFeedbackRegen(content_generator) =>
          /\ generator_calls <= 1
          /\ generate_steps <= max_regen_attempts
          /\ ~(o_result.kind = "raised"
                 /\ o_result.origin = "regen_with_feedback")

\* ------------------------------------------------------------------------
\* Properties of ContentMapper._truncate, character by character
\* ------------------------------------------------------------------------
\* what the description of the truncation gives for the str s and the
\* budget: the first budget - 3 characters, cut back to the last space if
\* its index is beyond 80% of budget - 3, without trailing whitespace,
\* followed by the ellipsis
WordBoundaryCut(s, budget) ==
    LET kept == SubSeq(s, 1, Min(Len(s), Max(0, budget - 3)))
        sp == RFindSpace(kept)
    IN RStripChars(IF 10 * sp > 8 * (budget - 3)
                     THEN SubSeq(kept, 1, sp) ELSE kept)
       \o <<".", ".", ".">>

C39_ForcedFallbackNeverRegenerates ==
    (ForcedFallbackMode /\ o_pc # "idle"
        /\ constraints = MapperConstraints(EmptyDict)) =>
       /\ \A i \in 1..Len(generated) :
             ~AssessSlide(generated[i], constraints).needs_regen
       /\ flagged = 0
       /\ o_feedback = NoFeedback
       /\ o_result.origin # "regen_with_feedback"
       /\ generate_steps <= 1
       /\ generator_calls = generate_steps
       /\ o_pc \in {"ASSESS", "DONE", "returned"} => generator_calls = 1

\* a run over a forced-fallback generator, allowed three attempts, has
\* assessed a synthetic outline of 20 slides and handed it to rendering
\* after one generation call
C39_Witness ==
    /\ ForcedFallbackMode
    /\ constraints = MapperConstraints(EmptyDict)
    /\ max_regen_attempts = MaxRegen
    /\ o_pc = "returned"
    /\ Len(generated) = MAX_SLIDES
    /\ assessed = 1
    /\ generator_calls = 1
    /\ rendered # <<>>

\* ------------------------------------------------------------------------
\* Properties of the generator's default model
\* ------------------------------------------------------------------------
\* _call_api returns the response of candidates[ci]
ModelCallAnswers == pc = "call" /\ pc' = "process"

\* an attempt got its outline through validation with issues and the loop
\* goes on (or ends) without returning it
ValidationFailed ==
    pc = "process" /\ feedback' = "validation_issues"

\* C40: self.model changes in two ways only: lock-on inside a model call
\* that succeeds, to the model that answered, and escalation to
\* groq/llama-3.3-70b-versatile, only after a validation failure on attempt
\* 2 or later while self.model ends with llama-3.1-8b-instant and a Groq
\* credential is present; a model call that raises, an attempt that ends in
\* an exception and the forced-fallback path leave it unchanged
C40_DefaultModelFrame ==
    [][/\ model' # model =>
             \/ /\ ModelCallAnswers
                /\ model' = chain[ci]
                /\ tried'[Len(tried')] = ApiCall(model', "ok")
             \/ /\ ValidationFailed
                /\ model' = "groq/llama-3.3-70b-versatile"
                /\ attempt >= 2
                /\ EndsWith8B(model)
                /\ groq_key
       /\ (pc = "call" /\ ~ModelCallAnswers) => model' = model
       /\ (pc = "process" /\ ~ValidationFailed) => model' = model
       /\ force_fallback => model' = model]_vars

\* the third attempt starts after the second one failed validation: the
\* default model is the escalated one, while the model that answered last
\* was the small Groq model
C40_Witness ==
    /\ pc = "call" /\ attempt = 3
    /\ feedback = "validation_issues"
    /\ model = "groq/llama-3.3-70b-versatile"
    /\ EndsWith8B(last_success)
    /\ groq_key

\* ------------------------------------------------------------------------
\* Properties of _safe_parse_json
\* ------------------------------------------------------------------------
\* the text _safe_parse_json works on
JsonText == StripFences(j_raw)

\* the number of "{" less the number of "}" from index i to index j
BraceDepth(i, j) ==
    Cardinality({n \in i..j : JsonText[n] = "{"})
      - Cardinality({n \in i..j : JsonText[n] = "}"})

\* the balanced brace spans of the text: from a "{" to the first "}" that
\* closes as many braces as were opened from there
BalancedSpans ==
    {sp \in (1..Len(JsonText)) \X (1..Len(JsonText)) :
        /\ JsonText[sp[1]] = "{"
        /\ sp[1] < sp[2]
        /\ BraceDepth(sp[1], sp[2]) = 0
        /\ \A n \in sp[1]..(sp[2] - 1) : BraceDepth(sp[1], n) > 0}

\* the values of the balanced spans that parse
ParsedSpans ==
    {JsonLoads(SubSeq(JsonText, sp[1], sp[2])).val :
        sp \in {x \in BalancedSpans : JsonLoads(SubSeq(JsonText, x[1], x[2])).ok}}

\* C36: when the text, after a leading and a trailing code fence are
\* stripped, parses directly, _safe_parse_json returns its value; when it
\* does not, every balanced brace span is parsed on its own and the parsed
\* span of the largest serialized size is returned; a data error is raised
\* if and only if the text does not parse directly and no balanced span
\* parses
C36_LargestParsedSpan ==
    (j_result # NoJson /\ j_raw # NoneRaw) =>
        /\ JsonLoads(JsonText).ok =>
              j_result = [kind |-> "value", val |-> JsonLoads(JsonText).val]
        /\ (~JsonLoads(JsonText).ok /\ ParsedSpans # {}) =>
              /\ j_result.kind = "value"
              /\ j_result.val \in ParsedSpans
              /\ \A v \in ParsedSpans : JsonSize(v) <= JsonSize(j_result.val)
        /\ j_result.kind = "ValueError"
              <=> (~JsonLoads(JsonText).ok /\ ParsedSpans = {})

\* a text that does not parse directly has two balanced spans that parse,
\* the first of them the smaller, and the larger one is returned
C36_Witness ==
    /\ j_result.kind = "value"
    /\ ~JsonLoads(JsonText).ok
    /\ Cardinality(ParsedSpans) >= 2
    /\ j_result.val # ExtractObjs(JsonText, 1)[1]
====
